---- MODULE Spec2Model ----
(***************************************************************************)
(* Model of the matching engine of dumb-research-name-generator.          *)
(*                                                                         *)
(* src/vite.config.ts holds two evolutions of the engine:                  *)
(*   lines  12-408: the engine with findCompoundWords and findNearMatches  *)
(*   lines 410-714: the engine with generateCompoundMatches                *)
(* analyzeTitleTitle, findWordInTitle and buildWordSet are the same text   *)
(* in both and are modelled once.  Where the two differ the definitions    *)
(* carry the suffix 1 (lines 12-408) or 2 (lines 410-714).                 *)
(*                                                                         *)
(* Strings are sequences of character codes (ASCII).  JavaScript indices   *)
(* are 0-based and are kept 0-based as values; TLA+ sequences are 1-based, *)
(* so s[i + 1] is the JavaScript s[i].                                     *)
(* Niceness values are kept exactly, as integers in units of 1/1000.       *)
(***************************************************************************)
EXTENDS Integers, Sequences, FiniteSets, TLC

VARIABLES
    title,      \* the title: the engine's input, the App's title state
    word,       \* a word handed to findWordInTitle, editDistance, calculateNiceness
    other,      \* the second string of editDistance
    allWords,   \* the dictionary: the engine's input, the App's words state
    options,    \* the options of the search
    out,        \* the operation applied and its result
    app         \* the rest of the App component's state

vars == <<title, word, other, allWords, options, out, app>>

----------------------------------------------------------------------------
(* Bounds of the explored inputs.                                          *)

MaxTitleLen == 4
MaxWordLen == 3

(* ' ', 'a', 'B': a separator, a lower-case and an upper-case letter.      *)
TitleChars == {32, 97, 66}
(* 'a', 'b', 'A': words handed to the matcher need not be lower-case.      *)
ProbeChars == {97, 98, 65}

RECURSIVE StringsUpTo(_, _)
StringsUpTo(chars, n) ==
    IF n = 0 THEN {<<>>}
    ELSE LET shorter == StringsUpTo(chars, n - 1)
         IN  shorter \cup {Append(s, c) : s \in shorter, c \in chars}

Titles == StringsUpTo(TitleChars, MaxTitleLen)
ProbeWords == StringsUpTo(ProbeChars, MaxWordLen)

Min(x, y) == IF x <= y THEN x ELSE y
Max(x, y) == IF x >= y THEN x ELSE y

----------------------------------------------------------------------------
(* String primitives of the JavaScript runtime, on ASCII.                  *)

\* String.prototype.toLowerCase on one character
toLowerCaseChar(c) == IF c \in 65..90 THEN c + 32 ELSE c

toLowerCase(s) == [i \in 1..Len(s) |-> toLowerCaseChar(s[i])]

\* /[a-z]/i.test(c)
isLetter(c) == c \in 65..90 \/ c \in 97..122

----------------------------------------------------------------------------
(* analyzeTitleTitle                                                       *)

\* mutant: the letters are kept as written, not lower-cased
RECURSIVE scanLettersAsWritten(_, _, _, _)
scanLettersAsWritten(t, i, letterPositions, letters) ==
    IF i >= Len(t) THEN [letterPositions |-> letterPositions, letters |-> letters]
    ELSE IF isLetter(t[i + 1])
         THEN scanLettersAsWritten(t, i + 1, Append(letterPositions, i),
                                   Append(letters, t[i + 1]))
         ELSE scanLettersAsWritten(t, i + 1, letterPositions, letters)

\* the first loop: letterPositions and letters
RECURSIVE scanLetters(_, _, _, _)
scanLetters(t, i, letterPositions, letters) ==
    IF i >= Len(t) THEN [letterPositions |-> letterPositions, letters |-> letters]
    ELSE IF isLetter(t[i + 1])
         THEN scanLetters(t, i + 1, Append(letterPositions, i),
                          Append(letters, toLowerCaseChar(t[i + 1])))
         ELSE scanLetters(t, i + 1, letterPositions, letters)

\* end (exclusive) of the maximal run of letters that starts at i
RECURSIVE runEnd(_, _)
runEnd(t, i) == IF i < Len(t) /\ isLetter(t[i + 1]) THEN runEnd(t, i + 1) ELSE i

\* mutant: letterStartIndex counts the characters of the title, not its letters
RECURSIVE scanWordsByTitleIndex(_, _, _, _)
scanWordsByTitleIndex(t, i, letterIndex, words) ==
    IF i >= Len(t) THEN words
    ELSE IF ~isLetter(t[i + 1]) THEN scanWordsByTitleIndex(t, i + 1, letterIndex, words)
    ELSE LET e == runEnd(t, i)
             w == toLowerCase(SubSeq(t, i + 1, e))
         IN  scanWordsByTitleIndex(t, e, letterIndex + Len(w),
                       Append(words, [word |-> w,
                                      startIndex |-> i,
                                      letterStartIndex |-> i,
                                      letterEndIndex |-> i + Len(w)]))

\* the wordRegex.exec loop: one TitleWord per match of /[a-zA-Z]+/g
RECURSIVE scanWords(_, _, _, _)
scanWords(t, i, letterIndex, words) ==
    IF i >= Len(t) THEN words
    ELSE IF ~isLetter(t[i + 1]) THEN scanWords(t, i + 1, letterIndex, words)
    ELSE LET e == runEnd(t, i)
             w == toLowerCase(SubSeq(t, i + 1, e))
         IN  scanWords(t, e, letterIndex + Len(w),
                       Append(words, [word |-> w,
                                      startIndex |-> i,
                                      letterStartIndex |-> letterIndex,
                                      letterEndIndex |-> letterIndex + Len(w)]))

analyzeTitleTitle(t) ==
    LET ls == scanLetters(t, 0, <<>>, <<>>)
        words == scanWords(t, 0, 0, <<>>)
    IN  [original |-> t,
         letters |-> ls.letters,
         letterPositions |-> ls.letterPositions,
         words |-> words,
         initials |-> [i \in 1..Len(words) |-> words[i].word[1]]]

----------------------------------------------------------------------------
(* findWordInTitle                                                         *)

null == [found |-> FALSE, indices |-> <<>>]

\* the inner while loop: the first titleIdx' >= titleIdx holding char, or -1
RECURSIVE scanFor(_, _, _)
scanFor(letters, titleIdx, char) ==
    IF titleIdx >= Len(letters) THEN -1
    ELSE IF letters[titleIdx + 1] = char THEN titleIdx
    ELSE scanFor(letters, titleIdx + 1, char)

\* mutant: the index into letters is stored, not the place in the title
RECURSIVE matchFromLetterIndex(_, _, _, _, _)
matchFromLetterIndex(titleInfo, wordLower, k, titleIdx, indices) ==
    IF k >= Len(wordLower) THEN [found |-> TRUE, indices |-> indices]
    ELSE LET at == scanFor(titleInfo.letters, titleIdx, wordLower[k + 1])
         IN  IF at < 0 THEN null
             ELSE matchFromLetterIndex(titleInfo, wordLower, k + 1, at + 1,
                                       Append(indices, at))

\* mutant: the cursor starts from the first letter again for every character
RECURSIVE matchFromRestart(_, _, _, _, _)
matchFromRestart(titleInfo, wordLower, k, titleIdx, indices) ==
    IF k >= Len(wordLower) THEN [found |-> TRUE, indices |-> indices]
    ELSE LET at == scanFor(titleInfo.letters, 0, wordLower[k + 1])
         IN  IF at < 0 THEN null
             ELSE matchFromRestart(titleInfo, wordLower, k + 1, at + 1,
                                   Append(indices, titleInfo.letterPositions[at + 1]))

\* the loop over the characters of wordLower, k of them already matched
RECURSIVE matchFrom(_, _, _, _, _)
matchFrom(titleInfo, wordLower, k, titleIdx, indices) ==
    IF k >= Len(wordLower) THEN [found |-> TRUE, indices |-> indices]
    ELSE LET at == scanFor(titleInfo.letters, titleIdx, wordLower[k + 1])
         IN  IF at < 0 THEN null
             ELSE matchFrom(titleInfo, wordLower, k + 1, at + 1,
                            Append(indices, titleInfo.letterPositions[at + 1]))

\* mutant: the word is matched as given, not lower-cased
findWordInTitleCaseSensitive(titleInfo, w) ==
    IF Len(titleInfo.letters) < Len(w) THEN null
    ELSE matchFrom(titleInfo, w, 0, 0, <<>>)

findWordInTitle(titleInfo, w) ==
    LET wordLower == toLowerCase(w)
    IN  IF Len(titleInfo.letters) < Len(wordLower) THEN null
        ELSE matchFrom(titleInfo, wordLower, 0, 0, <<>>)

----------------------------------------------------------------------------
(* editDistance                                                            *)

\* prev after the first loop: prev[j] = j for j in 0..n
firstRow(n) == [j \in 1..(n + 1) |-> j - 1]

\* mutant: the deletion term prev[j] is left out of the minimum
RECURSIVE fillRowNoDeletion(_, _, _, _, _)
fillRowNoDeletion(a, b, i, prev, curr) ==
    LET j == Len(curr)
    IN  IF j > Len(b) THEN curr
        ELSE fillRowNoDeletion(a, b, i, prev,
                 Append(curr, IF a[i] = b[j] THEN prev[j]
                              ELSE 1 + Min(prev[j], curr[j])))

\* the inner loop over j: curr holds curr[0..j-1], JavaScript curr[j] is
\* curr[j + 1] here and likewise for prev
RECURSIVE fillRow(_, _, _, _, _)
fillRow(a, b, i, prev, curr) ==
    LET j == Len(curr)
    IN  IF j > Len(b) THEN curr
        ELSE fillRow(a, b, i, prev,
                 Append(curr, IF a[i] = b[j] THEN prev[j]
                              ELSE 1 + Min(Min(prev[j], prev[j + 1]), curr[j])))

\* the outer loop over i, with curr copied into prev after each row
RECURSIVE rows(_, _, _, _)
rows(a, b, i, prev) ==
    IF i > Len(a) THEN prev
    ELSE rows(a, b, i + 1, fillRow(a, b, i, prev, <<i>>))

editDistance(a, b) == rows(a, b, 1, firstRow(Len(b)))[Len(b) + 1]

----------------------------------------------------------------------------
(* calculateNiceness                                                       *)
(*                                                                         *)
(* The score is a sum of fractions; it is computed exactly, as N / D in    *)
(* hundredths, and Math.round(score * 100) is the nearest integer with     *)
(* halves rounded up.  The returned value is in units of 1/1000.           *)

\* the value NaN, which no comparison with a number satisfies: an integer no
\* score takes
NaN == -1

\* Array.prototype.indexOf: the first 0-based position of v in s, or -1
RECURSIVE indexOfFrom(_, _, _)
indexOfFrom(s, v, i) ==
    IF i >= Len(s) THEN -1
    ELSE IF s[i + 1] = v THEN i
    ELSE indexOfFrom(s, v, i + 1)

indexOf(s, v) == indexOfFrom(s, v, 0)

\* mutant: no element is ever found
includesNever(s, v) == FALSE

\* Array.prototype.includes
includes(s, v) == \E i \in 1..Len(s) : s[i] = v

\* the loop over titleInfo.words with its break: the 1-based number of the
\* first title word whose letter range holds letterIdx, or 0
RECURSIVE wordAtFrom(_, _, _)
wordAtFrom(words, letterIdx, wi) ==
    IF wi > Len(words) THEN 0
    ELSE IF letterIdx >= words[wi].letterStartIndex
            /\ letterIdx < words[wi].letterEndIndex THEN wi
    ELSE wordAtFrom(words, letterIdx, wi + 1)

wordAt(words, letterIdx) == wordAtFrom(words, letterIdx, 1)

\* wordsUsed.size
wordsUsed(titleInfo, letterIndices) ==
    Cardinality({wordAt(titleInfo.words, letterIndices[i]) :
                     i \in 1..Len(letterIndices)} \ {0})

\* the divisor of posInWord: wordLength in lines 137-140, and
\* Math.max(wordLength - 1, 1) in lines 545-549
posDenom1(tw) == tw.letterEndIndex - tw.letterStartIndex
posDenom2(tw) == Max(tw.letterEndIndex - tw.letterStartIndex - 1, 1)

RECURSIVE Product(_, _)
Product(f, n) == IF n = 0 THEN 1 ELSE f[n] * Product(f, n - 1)

\* a common denominator of every posScore of the title
posDenoms1(titleInfo) ==
    Product([i \in 1..Len(titleInfo.words) |-> posDenom1(titleInfo.words[i])],
            Len(titleInfo.words))
posDenoms2(titleInfo) ==
    Product([i \in 1..Len(titleInfo.words) |-> posDenom2(titleInfo.words[i])],
            Len(titleInfo.words))

\* startLetterScore times the common denominator ld, summed over the first
\* k letterIndices
RECURSIVE startLetterSum1(_, _, _, _)
startLetterSum1(titleInfo, letterIndices, k, ld) ==
    IF k = 0 THEN 0
    ELSE LET wi == wordAt(titleInfo.words, letterIndices[k])
             rest == startLetterSum1(titleInfo, letterIndices, k - 1, ld)
         IN  IF wi = 0 THEN rest
             ELSE LET tw == titleInfo.words[wi]
                      posInWord == letterIndices[k] - tw.letterStartIndex
                  IN  rest + ld - posInWord * (ld \div posDenom1(tw))

RECURSIVE startLetterSum2(_, _, _, _)
startLetterSum2(titleInfo, letterIndices, k, ld) ==
    IF k = 0 THEN 0
    ELSE LET wi == wordAt(titleInfo.words, letterIndices[k])
             rest == startLetterSum2(titleInfo, letterIndices, k - 1, ld)
         IN  IF wi = 0 THEN rest
             ELSE LET tw == titleInfo.words[wi]
                      posInWord == letterIndices[k] - tw.letterStartIndex
                  IN  rest + ld - posInWord * (ld \div posDenom2(tw))

\* the loop counting initialsMatched, with its break
RECURSIVE initialsMatchedFrom(_, _, _)
initialsMatchedFrom(wordLower, initials, i) ==
    IF i < Min(Len(wordLower), Len(initials)) /\ wordLower[i + 1] = initials[i + 1]
    THEN initialsMatchedFrom(wordLower, initials, i + 1)
    ELSE i

initialsMatched(w, initials) == initialsMatchedFrom(toLowerCase(w), initials, 0)

\* Math.round(n / d) for n >= 0, d > 0
roundDiv(n, d) == (2 * n + d) \div (2 * d)

\* lines 110-167: no first-letter bonus and no guard against a zero divisor;
\* 0 / 0 is NaN and NaN stays NaN through every later sum
calculateNiceness1(titleInfo, w, indices) ==
    LET wordLen == Len(w)
        nw == Len(titleInfo.words)
        ni == Len(titleInfo.initials)
        letterIndices ==
            [i \in 1..Len(indices) |-> indexOf(titleInfo.letterPositions, indices[i])]
        ld == posDenoms1(titleInfo)
        k == initialsMatched(w, titleInfo.initials)
    IN  IF nw = 0 \/ wordLen = 0 THEN NaN
        ELSE LET d == nw * ld * wordLen * ni
                 n == 4000 * wordsUsed(titleInfo, letterIndices) * (d \div nw)
                      + 3000 * startLetterSum1(titleInfo, letterIndices,
                                               Len(letterIndices), ld)
                             * (d \div (ld * wordLen))
                      + (IF k > 0 THEN 2000 * k * (d \div ni) ELSE 0)
                      + 100 * Min(wordLen, 10) * d
             IN  10 * roundDiv(n, d)

\* lines 507-576
calculateNiceness2(titleInfo, w, indices) ==
    LET wordLen == Len(w)
        nw == Len(titleInfo.words)
        ni == Len(titleInfo.initials)
        mapped ==
            [i \in 1..Len(indices) |-> indexOf(titleInfo.letterPositions, indices[i])]
        letterIndices == SelectSeq(mapped, LAMBDA i : i >= 0)
        first == IF nw > 0 /\ includes(letterIndices, titleInfo.words[1].letterStartIndex)
                 THEN 25 ELSE 0
        ld == posDenoms2(titleInfo)
        k == initialsMatched(w, titleInfo.initials)
        d == Max(nw, 1) * ld * Max(wordLen, 1) * Max(ni, 1)
        n == 100 * first * d
             + (IF nw > 0
                THEN 4000 * wordsUsed(titleInfo, letterIndices) * (d \div nw)
                ELSE 0)
             + 3000 * startLetterSum2(titleInfo, letterIndices, Len(letterIndices), ld)
                    * (d \div (ld * Max(wordLen, 1)))
             + (IF k > 0 /\ ni > 0 THEN 2000 * k * (d \div ni) ELSE 0)
             + 100 * Min(wordLen, 10) * d
    IN  10 * roundDiv(n, d)

----------------------------------------------------------------------------
(* Array.prototype.sort (stable) with the comparators of the engine.       *)

\* a.localeCompare(b) < 0, for words of lower-case ASCII letters
RECURSIVE localeBefore(_, _)
localeBefore(a, b) ==
    IF Len(b) = 0 THEN FALSE
    ELSE IF Len(a) = 0 THEN TRUE
    ELSE IF a[1] # b[1] THEN a[1] < b[1]
    ELSE localeBefore(Tail(a), Tail(b))

\* mutant: shorter words first on equal niceness
beforeFullShortFirst(a, b) ==
    IF b.niceness # a.niceness THEN b.niceness < a.niceness
    ELSE IF Len(b.word) # Len(a.word) THEN Len(a.word) < Len(b.word)
    ELSE localeBefore(a.word, b.word)

\* the comparator of lines 386-390, 641-645 and 687-691 returns a negative
\* number: a is to come before b
beforeFull(a, b) ==
    IF b.niceness # a.niceness THEN b.niceness < a.niceness
    ELSE IF Len(b.word) # Len(a.word) THEN Len(b.word) < Len(a.word)
    ELSE localeBefore(a.word, b.word)

\* the comparator of lines 249 and 331: b.niceness - a.niceness < 0
beforeNiceness(a, b) == b.niceness < a.niceness

before(a, b, order) ==
    IF order = "full" THEN beforeFull(a, b) ELSE beforeNiceness(a, b)

\* x placed in the sorted s before the first entry it is to come before
RECURSIVE insertSorted(_, _, _)
insertSorted(s, x, order) ==
    IF Len(s) = 0 THEN <<x>>
    ELSE IF before(x, s[1], order) THEN <<x>> \o s
    ELSE <<s[1]>> \o insertSorted(Tail(s), x, order)

RECURSIVE sortFirst(_, _, _)
sortFirst(s, n, order) ==
    IF n = 0 THEN <<>>
    ELSE insertSorted(sortFirst(s, n - 1, order), s[n], order)

sort(s, order) == sortFirst(s, Len(s), order)

\* Array.prototype.slice(0, n) for n >= 0
slice(s, n) == SubSeq(s, 1, Min(n, Len(s)))

\* mutant: only a prefix counts
stringIncludesAtStart(s, t) == Len(t) <= Len(s) /\ SubSeq(s, 1, Len(t)) = t

\* String.prototype.includes
stringIncludes(s, t) ==
    \E i \in 0..(Len(s) - Len(t)) : SubSeq(s, i + 1, i + Len(t)) = t

\* String.prototype.trim, with ' ' the only white space of the inputs
RECURSIVE trimStart(_)
trimStart(s) == IF Len(s) > 0 /\ s[1] = 32 THEN trimStart(Tail(s)) ELSE s

RECURSIVE trimEnd(_)
trimEnd(s) ==
    IF Len(s) > 0 /\ s[Len(s)] = 32 THEN trimEnd(SubSeq(s, 1, Len(s) - 1)) ELSE s

trim(s) == trimEnd(trimStart(s))

\* buildWordSet
buildWordSet(words) == {toLowerCase(words[i]) : i \in 1..Len(words)}

\* mutant: no word is remembered
wordsOfNone(matches) == {}

wordsOf(matches) == {matches[i].word : i \in 1..Len(matches)}

----------------------------------------------------------------------------
(* findCompoundWords (lines 205-250)                                       *)

\* the loop over splitPoint: the first split into two words of wordSet, or 0
RECURSIVE splitFrom(_, _, _, _)
splitFrom(w, wordSet, splitPoint, minComponentLength) ==
    IF splitPoint > Len(w) - minComponentLength THEN 0
    ELSE IF SubSeq(w, 1, splitPoint) \in wordSet
            /\ SubSeq(w, splitPoint + 1, Len(w)) \in wordSet THEN splitPoint
    ELSE splitFrom(w, wordSet, splitPoint + 1, minComponentLength)

\* the loop over allWords from entry i on; seen is the set of result words
RECURSIVE compoundLoop(_, _, _, _, _, _, _)
compoundLoop(titleInfo, wordSet, dict, minComponentLength, maxResults, i, results) ==
    IF i > Len(dict) THEN results
    ELSE
      LET w == dict[i]
          found == findWordInTitle(titleInfo, w)
          splitPoint == splitFrom(w, wordSet, minComponentLength, minComponentLength)
      IN  IF \/ Len(w) < minComponentLength * 2
             \/ Len(w) > Len(titleInfo.letters)
             \/ ~found.found
          THEN compoundLoop(titleInfo, wordSet, dict, minComponentLength,
                            maxResults, i + 1, results)
          ELSE
            LET pushed ==
                  IF splitPoint = 0 \/ w \in wordsOf(results) THEN results
                  ELSE Append(results,
                         [word |-> w,
                          indices |-> found.indices,
                          niceness |-> IF calculateNiceness1(titleInfo, w, found.indices) = NaN
                                       THEN NaN
                                       ELSE (calculateNiceness1(titleInfo, w, found.indices)
                                               \div 10) * 8,
                          type |-> "compound",
                          components |-> <<SubSeq(w, 1, splitPoint),
                                           SubSeq(w, splitPoint + 1, Len(w))>>])
            IN  IF Len(pushed) >= maxResults THEN pushed
                ELSE compoundLoop(titleInfo, wordSet, dict, minComponentLength,
                                  maxResults, i + 1, pushed)

findCompoundWords(titleInfo, wordSet, dict, minComponentLength, maxResults) ==
    sort(compoundLoop(titleInfo, wordSet, dict, minComponentLength, maxResults,
                      1, <<>>),
         "niceness")

----------------------------------------------------------------------------
(* findNearMatches (lines 253-332) and containsSubsequence (lines 335-343) *)

RECURSIVE containsFrom(_, _, _, _)
containsFrom(source, target, si, ti) ==
    IF si < Len(source) /\ ti < Len(target)
    THEN containsFrom(source, target, si + 1,
                      IF source[si + 1] = target[ti + 1] THEN ti + 1 ELSE ti)
    ELSE ti

containsSubsequence(source, target) ==
    containsFrom(source, target, 0, 0) = Len(target)

\* the inner for loop of lines 306-316: the first wi' >= wi with
\* wordLower[wi'] = c, or the length of wordLower
RECURSIVE walkTo(_, _, _)
walkTo(wordLower, wi, c) ==
    IF wi >= Len(wordLower) THEN wi
    ELSE IF wordLower[wi + 1] = c THEN wi
    ELSE walkTo(wordLower, wi + 1, c)

\* mutant: the place of the match in the candidate is recorded
RECURSIVE matchedInitialsInWord(_, _, _, _, _)
matchedInitialsInWord(titleInfo, initials, wordLower, ii, wi) ==
    IF ~(ii < Len(initials) /\ wi < Len(wordLower)) THEN <<>>
    ELSE LET at == walkTo(wordLower, wi, initials[ii + 1])
         IN  IF at >= Len(wordLower) THEN <<>>
             ELSE <<at>> \o matchedInitialsInWord(titleInfo, initials, wordLower,
                                                  ii + 1, at + 1)

\* the outer for loop of lines 305-317
RECURSIVE matchedInitials(_, _, _, _, _)
matchedInitials(titleInfo, initials, wordLower, ii, wi) ==
    IF ~(ii < Len(initials) /\ wi < Len(wordLower)) THEN <<>>
    ELSE LET at == walkTo(wordLower, wi, initials[ii + 1])
         IN  IF at >= Len(wordLower) THEN <<>>
             ELSE (IF ii + 1 <= Len(titleInfo.words)
                   THEN <<titleInfo.words[ii + 1].startIndex>> ELSE <<>>)
                  \o matchedInitials(titleInfo, initials, wordLower, ii + 1, at + 1)

\* mutant: no bonus for the first letter
nearNicenessNoFirstLetter(wordLower, initials, distance, maxEditDistance) ==
    LET unit == 10 * (maxEditDistance + 1)
        closeness == unit - 10 * distance
                     + (IF containsSubsequence(wordLower, initials)
                        THEN 3 * (maxEditDistance + 1) ELSE 0)
    IN  10 * roundDiv(Min(closeness, unit) * 5000, unit)

\* mutant: closeness is not clamped to 1
nearNicenessUnclamped(wordLower, initials, distance, maxEditDistance) ==
    LET unit == 10 * (maxEditDistance + 1)
        closeness == unit - 10 * distance
                     + (IF Len(initials) > 0 /\ wordLower[1] = initials[1]
                        THEN 2 * (maxEditDistance + 1) ELSE 0)
                     + (IF containsSubsequence(wordLower, initials)
                        THEN 3 * (maxEditDistance + 1) ELSE 0)
    IN  10 * roundDiv(closeness * 5000, unit)

\* closeness in units of 1 / (10 * (maxEditDistance + 1)), then
\* Math.round(Math.min(closeness, 1) * 50 * 100), in units of 1/1000
nearNiceness(wordLower, initials, distance, maxEditDistance) ==
    LET unit == 10 * (maxEditDistance + 1)
        closeness == unit - 10 * distance
                     + (IF Len(initials) > 0 /\ wordLower[1] = initials[1]
                        THEN 2 * (maxEditDistance + 1) ELSE 0)
                     + (IF containsSubsequence(wordLower, initials)
                        THEN 3 * (maxEditDistance + 1) ELSE 0)
    IN  10 * roundDiv(Min(closeness, unit) * 5000, unit)

\* mutant: a candidate is never taken for an exact match
isExactMatchNever(titleInfo, w) == FALSE

\* lines 281-282: the candidate is already an exact match in the title
isExactMatch(titleInfo, w) == findWordInTitle(titleInfo, w).found

\* the loop over allWords from entry i on
RECURSIVE nearLoop(_, _, _, _, _, _)
nearLoop(titleInfo, dict, maxEditDistance, maxResults, i, results) ==
    IF i > Len(dict) THEN results
    ELSE
      LET w == dict[i]
          initials == toLowerCase(titleInfo.initials)
          minLen == Max(2, Len(initials) - maxEditDistance)
          maxLen == Len(initials) + maxEditDistance + 2
          wordLower == toLowerCase(w)
          distance == editDistance(wordLower, initials)
          near == distance > 0 /\ distance <= maxEditDistance
      IN  IF \/ Len(w) < minLen \/ Len(w) > maxLen
             \/ (near /\ isExactMatch(titleInfo, w))
          THEN nearLoop(titleInfo, dict, maxEditDistance, maxResults, i + 1, results)
          ELSE
            LET pushed ==
                  IF ~near THEN results
                  ELSE Append(results,
                         [word |-> w,
                          indices |-> matchedInitials(titleInfo, initials, wordLower, 0, 0),
                          niceness |-> nearNiceness(wordLower, initials, distance,
                                                    maxEditDistance),
                          type |-> "near",
                          editDistance |-> distance])
            IN  IF Len(pushed) >= maxResults * 2 THEN pushed
                ELSE nearLoop(titleInfo, dict, maxEditDistance, maxResults, i + 1, pushed)

\* mutant: the dictionary is scanned to its end
findNearMatchesWholeScan(titleInfo, dict, maxEditDistance, maxResults) ==
    IF Len(titleInfo.initials) < 2 THEN <<>>
    ELSE slice(sort(nearLoop(titleInfo, dict, maxEditDistance, Len(dict) + maxResults,
                             1, <<>>),
                    "niceness"),
               maxResults)

\* mutant: candidates one edit further away are accepted
findNearMatchesOneEditMore(titleInfo, dict, maxEditDistance, maxResults) ==
    IF Len(titleInfo.initials) < 2 THEN <<>>
    ELSE slice(sort(nearLoop(titleInfo, dict, maxEditDistance + 1, maxResults, 1, <<>>),
                    "niceness"),
               maxResults)

\* mutant: the early return is taken for empty initials only
findNearMatchesOneInitial(titleInfo, dict, maxEditDistance, maxResults) ==
    IF Len(titleInfo.initials) < 1 THEN <<>>
    ELSE slice(sort(nearLoop(titleInfo, dict, maxEditDistance, maxResults, 1, <<>>),
                    "niceness"),
               maxResults)

\* mutant: no early return for short initials
findNearMatchesUnguarded(titleInfo, dict, maxEditDistance, maxResults) ==
    slice(sort(nearLoop(titleInfo, dict, maxEditDistance, maxResults, 1, <<>>),
               "niceness"),
          maxResults)

findNearMatches(titleInfo, dict, maxEditDistance, maxResults) ==
    IF Len(titleInfo.initials) < 2 THEN <<>>
    ELSE slice(sort(nearLoop(titleInfo, dict, maxEditDistance, maxResults, 1, <<>>),
                    "niceness"),
               maxResults)

----------------------------------------------------------------------------
(* generateCompoundMatches (lines 586-647)                                 *)

componentPoolSize == 80

\* the two nested loops over componentPool, at the pair (i, j)
RECURSIVE pairLoop(_, _, _, _, _, _, _, _, _)
pairLoop(titleInfo, componentPool, wordSet, searchLower, minWordLength, maxCandidates, i, j, compounds) ==
    IF i >= Len(componentPool) THEN compounds
    ELSE IF j >= Len(componentPool)
    THEN IF Len(compounds) >= maxCandidates THEN compounds
         ELSE pairLoop(titleInfo, componentPool, wordSet, searchLower, minWordLength,
                       maxCandidates, i + 1, 0, compounds)
    ELSE
      LET first == componentPool[i + 1]
          second == componentPool[j + 1]
          combinedWord == first.word \o second.word
          found == findWordInTitle(titleInfo, combinedWord)
      IN  IF \/ i = j
             \/ Len(combinedWord) < minWordLength
             \/ Len(combinedWord) > Len(titleInfo.letters)
             \/ (Len(searchLower) > 0 /\ ~stringIncludes(combinedWord, searchLower))
             \/ combinedWord \in wordSet
             \/ combinedWord \in wordsOf(compounds)
             \/ ~found.found
          THEN pairLoop(titleInfo, componentPool, wordSet, searchLower, minWordLength,
                        maxCandidates, i, j + 1, compounds)
          ELSE
            LET pushed ==
                  Append(compounds,
                    [word |-> combinedWord,
                     indices |-> found.indices,
                     niceness |->
                       10 * roundDiv(9 * (calculateNiceness2(titleInfo, combinedWord,
                                                             found.indices) \div 10),
                                     10),
                     type |-> "compound",
                     components |-> <<first.word, second.word>>])
            IN  IF Len(pushed) >= maxCandidates THEN pushed
                ELSE pairLoop(titleInfo, componentPool, wordSet, searchLower,
                              minWordLength, maxCandidates, i, j + 1, pushed)

\* mutant: every usable match is a component, whatever the pool size
generateCompoundMatchesWholePool(titleInfo, exactMatches, wordSet, searchLower, minWordLength, maxResults, minComponentLength, poolSize) ==
    LET usableMatches ==
            SelectSeq(exactMatches, LAMBDA m : Len(m.word) >= minComponentLength)
        maxCandidates == Max(maxResults * 3, Len(usableMatches))
    IN  IF maxResults <= 0 \/ Len(usableMatches) < 2 THEN <<>>
        ELSE slice(sort(pairLoop(titleInfo, usableMatches, wordSet, searchLower,
                                 minWordLength, maxCandidates, 0, 0, <<>>),
                        "full"),
                   maxResults)

generateCompoundMatches(titleInfo, exactMatches, wordSet, searchLower, minWordLength, maxResults, minComponentLength, poolSize) ==
    LET usableMatches ==
            SelectSeq(exactMatches, LAMBDA m : Len(m.word) >= minComponentLength)
        componentPool == slice(usableMatches, poolSize)
        maxCandidates == Max(maxResults * 3, Len(componentPool))
    IN  IF maxResults <= 0 \/ Len(usableMatches) < 2 THEN <<>>
        ELSE slice(sort(pairLoop(titleInfo, componentPool, wordSet, searchLower,
                                 minWordLength, maxCandidates, 0, 0, <<>>),
                        "full"),
                   maxResults)

----------------------------------------------------------------------------
(* findAllMatches                                                          *)

\* mutant: the indices are stored counted from one
exactMatchFromOne(w, indices, niceness) ==
    [word |-> w,
     indices |-> [i \in 1..Len(indices) |-> indices[i] + 1],
     niceness |-> niceness,
     type |-> "exact"]

\* the WordMatch pushed in lines 376-381 and 677-682
exactMatch(w, indices, niceness) ==
    [word |-> w, indices |-> indices, niceness |-> niceness, type |-> "exact"]

\* the loop of lines 368-383 over allWords, up to entry n
RECURSIVE exactLoop1(_, _, _, _)
exactLoop1(titleInfo, dict, opts, n) ==
    IF n = 0 THEN <<>>
    ELSE
      LET w == dict[n]
          rest == exactLoop1(titleInfo, dict, opts, n - 1)
          searchLower == toLowerCase(opts.searchTerm)
          found == findWordInTitle(titleInfo, w)
      IN  IF \/ Len(w) < opts.minLength
             \/ Len(w) > Len(titleInfo.letters)
             \/ (Len(opts.searchTerm) > 0 /\ ~stringIncludes(w, searchLower))
             \/ ~found.found
          THEN rest
          ELSE Append(rest, exactMatch(w, found.indices,
                                       calculateNiceness1(titleInfo, w, found.indices)))

\* lines 346-408
findAllMatches1(titleInfo, dict, wordSet, opts) ==
    LET exactMatches == exactLoop1(titleInfo, dict, opts, Len(dict))
        exact == slice(sort(exactMatches, "full"), opts.maxResults)
        exactWordSet == wordsOf(exact)
        allCompounds == findCompoundWords(titleInfo, wordSet, dict, 3, opts.maxResults)
    IN  [exactMatches |-> exactMatches,
         exact |-> exact,
         compound |->
            IF opts.includeCompounds
            THEN slice(SelectSeq(allCompounds, LAMBDA c : c.word \notin exactWordSet),
                       opts.maxResults \div 2)
            ELSE <<>>,
         near |->
            IF opts.includeNearMatches
            THEN findNearMatches(titleInfo, dict, 2, opts.maxResults \div 2)
            ELSE <<>>]

\* the loop of lines 669-684 over allWords, up to entry n
RECURSIVE exactLoop2(_, _, _, _)
exactLoop2(titleInfo, dict, opts, n) ==
    IF n = 0 THEN <<>>
    ELSE
      LET w == dict[n]
          rest == exactLoop2(titleInfo, dict, opts, n - 1)
          searchLower == toLowerCase(trim(opts.searchTerm))
          found == findWordInTitle(titleInfo, w)
      IN  IF \/ Len(w) < opts.minLength
             \/ Len(w) > Len(titleInfo.letters)
             \/ (Len(searchLower) > 0 /\ ~stringIncludes(w, searchLower))
             \/ ~found.found
          THEN rest
          ELSE Append(rest, exactMatch(w, found.indices,
                                       calculateNiceness2(titleInfo, w, found.indices)))

\* lines 651-714
findAllMatches2(titleInfo, dict, wordSet, opts) ==
    LET searchLower == toLowerCase(trim(opts.searchTerm))
        allExactMatches == sort(exactLoop2(titleInfo, dict, opts, Len(dict)), "full")
        exact == slice(allExactMatches, opts.maxResults)
        exactWordSet == wordsOf(exact)
        compoundLimit == Max(1, opts.maxResults \div 2)
        minComponentLength == Max(2, Min(4, opts.minLength))
        generated == generateCompoundMatches(titleInfo, allExactMatches, wordSet,
                                             searchLower, opts.minLength, compoundLimit,
                                             minComponentLength, componentPoolSize)
    IN  [exactMatches |-> exactLoop2(titleInfo, dict, opts, Len(dict)),
         exact |-> exact,
         compound |->
            IF opts.includeCompounds
            THEN SelectSeq(generated, LAMBDA c : c.word \notin exactWordSet)
            ELSE <<>>]

----------------------------------------------------------------------------
(* Reference notions the claims are stated with.                           *)

\* w occurs in s as a subsequence (declaratively: some embedding exists)
RECURSIVE IsSubsequence(_, _)
IsSubsequence(w, s) ==
    IF Len(w) = 0 THEN TRUE
    ELSE IF Len(s) = 0 THEN FALSE
    ELSE \/ (w[1] = s[1] /\ IsSubsequence(Tail(w), Tail(s)))
         \/ IsSubsequence(w, Tail(s))

----------------------------------------------------------------------------
(* The matcher applied to a title and a word.                              *)

DefaultOptions ==
    [minLength |-> 1, maxResults |-> 1, searchTerm |-> <<>>,
     includeCompounds |-> FALSE, includeNearMatches |-> FALSE]

Idle == [op |-> "none"]

\* the engine applied on its own: no App component is mounted
NoApp == [mounted |-> FALSE]

InitMatcher ==
    /\ title \in Titles
    /\ word \in ProbeWords
    /\ other = <<>>
    /\ allWords = <<>>
    /\ options = DefaultOptions
    /\ out = Idle
    /\ app = NoApp

CallFindWordInTitle ==
    /\ out.op = "none"
    /\ out' = [op |-> "findWordInTitle",
               value |-> findWordInTitle(analyzeTitleTitle(title), word)]
    /\ UNCHANGED <<title, word, other, allWords, options, app>>

NextMatcher == CallFindWordInTitle

SpecMatcher == InitMatcher /\ [][NextMatcher]_vars

\* C1: findWordInTitle returns an index sequence exactly when the lower-cased
\* word is a subsequence of the title's letters, and a returned sequence has
\* one index per character of the word.
C1_FoundIffSubsequence ==
    out.op = "findWordInTitle" =>
        /\ out.value.found <=>
               IsSubsequence(toLowerCase(word), analyzeTitleTitle(title).letters)
        /\ out.value.found => Len(out.value.indices) = Len(word)

\* a word of two letters or more with an upper-case letter was found
C1_Witness ==
    /\ out.op = "findWordInTitle"
    /\ out.value.found
    /\ Len(word) >= 2
    /\ \E i \in 1..Len(word) : word[i] \in 65..90

----------------------------------------------------------------------------
(* Levenshtein distance by its definition: the length of a shortest chain  *)
(* of single-character edits.  A shortest chain can delete and substitute  *)
(* before it inserts, so no string on it is longer than the longer end.    *)

Chars(s) == {s[i] : i \in 1..Len(s)}

OneEdit(s, chars, maxLen) ==
    {SubSeq(s, 1, i - 1) \o SubSeq(s, i + 1, Len(s)) : i \in 1..Len(s)}
    \cup {[s EXCEPT ![i] = c] : i \in 1..Len(s), c \in chars}
    \cup IF Len(s) >= maxLen THEN {}
         ELSE {SubSeq(s, 1, i) \o <<c>> \o SubSeq(s, i + 1, Len(s)) :
                   i \in 0..Len(s), c \in chars}

RECURSIVE ChainLength(_, _, _, _, _)
ChainLength(reached, target, chars, maxLen, k) ==
    IF target \in reached THEN k
    ELSE ChainLength(reached \cup UNION {OneEdit(s, chars, maxLen) : s \in reached},
                     target, chars, maxLen, k + 1)

Levenshtein(a, b) ==
    ChainLength({a}, b, Chars(a) \cup Chars(b), Max(Len(a), Len(b)), 0)

----------------------------------------------------------------------------
(* editDistance applied to two strings.                                    *)

InitEditDistance ==
    /\ title = <<>>
    /\ word \in ProbeWords
    /\ other \in ProbeWords
    /\ allWords = <<>>
    /\ options = DefaultOptions
    /\ out = Idle
    /\ app = NoApp

CallEditDistance ==
    /\ out.op = "none"
    /\ out' = [op |-> "editDistance", value |-> editDistance(word, other)]
    /\ UNCHANGED <<title, word, other, allWords, options, app>>

NextEditDistance == CallEditDistance

SpecEditDistance == InitEditDistance /\ [][NextEditDistance]_vars

\* C8: editDistance(a, b) is a non-negative integer equal to the Levenshtein
\* distance of a and b compared case-sensitively, and editDistance(a, "")
\* is the length of a.
C8_IsLevenshtein ==
    out.op = "editDistance" =>
        /\ out.value \in Nat
        /\ out.value = Levenshtein(word, other)
        /\ other = <<>> => out.value = Len(word)

\* "ab" and "Abb" are at distance 2: the case of the first letter costs a
\* substitution and the second 'b' an insertion
C8_Witness ==
    /\ out.op = "editDistance"
    /\ word = <<97, 98>>
    /\ other = <<65, 98, 98>>
    /\ out.value = 2

\* C9: editDistance is symmetric, and zero on identical inputs.
C9_Symmetric ==
    out.op = "editDistance" =>
        /\ out.value = editDistance(other, word)
        /\ word = other => out.value = 0

\* two different strings of different lengths have been measured
C9_Witness ==
    /\ out.op = "editDistance"
    /\ Len(word) = 3
    /\ Len(other) = 1
    /\ out.value = 3

----------------------------------------------------------------------------
(* The search applied to a title, a dictionary and options.                *)

MaxDictLen == 2
MaxMinLength == 2
MaxMaxResults == 4

(* The loader of the UI hands the engine lower-cased, trimmed, non-empty   *)
(* lines of the word list: words over 'a' and 'b'.                         *)
DictChars == {97, 98}
DictWords == StringsUpTo(DictChars, MaxWordLen) \ {<<>>}

RECURSIVE SeqsUpTo(_, _)
SeqsUpTo(S, n) ==
    IF n = 0 THEN {<<>>}
    ELSE LET shorter == SeqsUpTo(S, n - 1)
         IN  shorter \cup {Append(s, x) : s \in shorter, x \in S}

Dictionaries == SeqsUpTo(DictWords, MaxDictLen)

(* "", " a" and "B": no filter, a padded and an upper-case filter.         *)
SearchTerms == {<<>>, <<32, 97>>, <<66>>}

(* The exact list alone: every filter, and maxResults up to the number of  *)
(* dictionary entries, so that it cuts the list or does not.               *)
ExactOptions ==
    [minLength : 1..MaxMinLength,
     maxResults : 1..MaxDictLen,
     searchTerm : SearchTerms,
     includeCompounds : {FALSE},
     includeNearMatches : {FALSE}]

(* All three categories, with and without a filter.                        *)
CategoryOptions ==
    [minLength : 1..MaxMinLength,
     maxResults : 1..MaxMaxResults,
     searchTerm : {<<>>, <<66>>},
     includeCompounds : {TRUE},
     includeNearMatches : {TRUE}]

InitExactSearch ==
    /\ title \in Titles
    /\ word = <<>>
    /\ other = <<>>
    /\ allWords \in Dictionaries
    /\ options \in ExactOptions
    /\ out = Idle
    /\ app = NoApp

InitCategorySearch ==
    /\ title \in Titles
    /\ word = <<>>
    /\ other = <<>>
    /\ allWords \in Dictionaries
    /\ options \in CategoryOptions
    /\ out = Idle
    /\ app = NoApp

(* Titles and words long enough for findCompoundWords, whose components    *)
(* have three letters or more: ' ' and 'a' in titles, 'a' in words.        *)
MaxLongLen == 6

LongTitles == StringsUpTo({32, 97}, MaxLongLen)
LongDictionaries == SeqsUpTo(StringsUpTo({97}, MaxLongLen) \ {<<>>}, MaxDictLen)

InitLongSearch ==
    /\ title \in LongTitles
    /\ word = <<>>
    /\ other = <<>>
    /\ allWords \in LongDictionaries
    /\ options \in CategoryOptions
    /\ out = Idle
    /\ app = NoApp

(* Titles over ' ', 'a' and 'b' and words that are a run of 'a' and then a *)
(* run of 'b', long enough for two words of different lengths to reach    *)
(* the same niceness ("aaaab": "aab" and "aaaab").                        *)
MaxRunLen == 5

Repeat(c, n) == [k \in 1..n |-> c]

RunWords ==
    {w \in {Repeat(97, i) \o Repeat(98, j) : i, j \in 0..MaxRunLen} :
        Len(w) \in 1..MaxRunLen}

RunTitles == StringsUpTo({32, 97, 98}, MaxLongLen)
RunDictionaries == SeqsUpTo(RunWords, MaxDictLen)

RunOptions ==
    [minLength : {1},
     maxResults : 1..MaxDictLen,
     searchTerm : {<<>>},
     includeCompounds : {FALSE},
     includeNearMatches : {FALSE}]

InitRunSearch ==
    /\ title \in RunTitles
    /\ word = <<>>
    /\ other = <<>>
    /\ allWords \in RunDictionaries
    /\ options \in RunOptions
    /\ out = Idle
    /\ app = NoApp

CallFindAllMatches1 ==
    /\ out.op = "none"
    /\ out' = [op |-> "findAllMatches1",
               value |-> findAllMatches1(analyzeTitleTitle(title), allWords,
                                         buildWordSet(allWords), options)]
    /\ UNCHANGED <<title, word, other, allWords, options, app>>

CallFindAllMatches2 ==
    /\ out.op = "none"
    /\ out' = [op |-> "findAllMatches2",
               value |-> findAllMatches2(analyzeTitleTitle(title), allWords,
                                         buildWordSet(allWords), options)]
    /\ UNCHANGED <<title, word, other, allWords, options, app>>

NextSearch == CallFindAllMatches1 \/ CallFindAllMatches2

SpecExactSearch == InitExactSearch /\ [][NextSearch]_vars

SpecCategorySearch == InitCategorySearch /\ [][NextSearch]_vars

SpecLongSearch == InitLongSearch /\ [][NextSearch]_vars

SpecRunSearch == InitRunSearch /\ [][NextSearch]_vars

----------------------------------------------------------------------------
(* Notions the claims about the search are stated with.                    *)

searched == out.op \in {"findAllMatches1", "findAllMatches2"}

titleInfoOfTitle == analyzeTitleTitle(title)

nearOf(result) == IF out.op = "findAllMatches1" THEN result.near ELSE <<>>

\* a is lexicographically smaller than b
LexLess(a, b) ==
    \E k \in 0..Min(Len(a), Len(b)) :
        /\ \A i \in 1..k : a[i] = b[i]
        /\ \/ (k = Len(a) /\ k < Len(b))
           \/ (k < Len(a) /\ k < Len(b) /\ a[k + 1] < b[k + 1])

\* a ranks strictly above b: niceness descending, then length descending,
\* then word ascending
RanksAbove(a, b) ==
    \/ a.niceness > b.niceness
    \/ (a.niceness = b.niceness /\ Len(a.word) > Len(b.word))
    \/ (a.niceness = b.niceness /\ Len(a.word) = Len(b.word) /\ LexLess(a.word, b.word))

Count(matches, w) == Cardinality({i \in 1..Len(matches) : matches[i].word = w})

\* t occurs in s as a substring
IsSubstring(t, s) ==
    \E i \in 1..(Len(s) + 1) :
        /\ i + Len(t) - 1 <= Len(s)
        /\ \A k \in 1..Len(t) : s[i + k - 1] = t[k]

\* s without its leading and trailing spaces
Trimmed(s) ==
    LET inked == {i \in 1..Len(s) : s[i] # 32}
    IN  IF inked = {} THEN <<>>
        ELSE SubSeq(s, CHOOSE i \in inked : \A k \in inked : i <= k,
                       CHOOSE i \in inked : \A k \in inked : i >= k)

\* the filter the search applies: the search term lower-cased, and in lines
\* 651-714 trimmed first
EffectiveTerm ==
    IF out.op = "findAllMatches2" THEN toLowerCase(Trimmed(options.searchTerm))
    ELSE toLowerCase(options.searchTerm)

Qualifies(w, term) ==
    /\ Len(w) >= options.minLength
    /\ Len(w) <= Len(titleInfoOfTitle.letters)
    /\ (Len(term) = 0 \/ IsSubstring(term, toLowerCase(w)))
    /\ IsSubsequence(w, titleInfoOfTitle.letters)

EmittedWords ==
    [i \in 1..Len(out.value.exactMatches) |-> out.value.exactMatches[i].word]

\* C2 as stated: one exact row per dictionary entry that is long enough, no
\* longer than the title's letters, holds searchTerm case-insensitively (or
\* searchTerm is empty) and is a subsequence of the letters; no other rows.
C2_EmitsPerQualifyingEntry ==
    searched =>
        /\ EmittedWords =
               SelectSeq(allWords, LAMBDA w : Qualifies(w, toLowerCase(options.searchTerm)))
        /\ \A i \in 1..Len(out.value.exactMatches) :
               out.value.exactMatches[i].type = "exact"

\* C2 amended: the same with the filter the code applies, which in lines
\* 651-714 is searchTerm trimmed of surrounding white space.
C2_EmitsPerQualifyingEntryTrimmed ==
    searched =>
        /\ EmittedWords = SelectSeq(allWords, LAMBDA w : Qualifies(w, EffectiveTerm))
        /\ \A i \in 1..Len(out.value.exactMatches) :
               out.value.exactMatches[i].type = "exact"

\* a duplicated entry gave two rows under an upper-case filter
C2_Witness ==
    /\ searched
    /\ options.searchTerm = <<66>>
    /\ Len(allWords) = 2
    /\ allWords[1] = allWords[2]
    /\ Len(out.value.exactMatches) = 2

\* C3: the exact list is ordered by niceness descending, then word length
\* descending, then word ascending, and is the first maxResults entries of
\* all exact matches in that order.
C3_ExactSortedAndTruncated ==
    searched =>
        LET exact == out.value.exact
            all == out.value.exactMatches
        IN  /\ Len(exact) = Min(options.maxResults, Len(all))
            /\ \A i, j \in 1..Len(exact) : i < j => ~RanksAbove(exact[j], exact[i])
            /\ \A i \in 1..Len(exact) : Count(exact, exact[i].word) <= Count(all, exact[i].word)
            /\ \A i \in 1..Len(exact) : \E k \in 1..Len(all) : all[k] = exact[i]
            /\ \A k \in 1..Len(all) :
                   Count(exact, all[k].word) < Count(all, all[k].word) =>
                       \A i \in 1..Len(exact) : ~RanksAbove(all[k], exact[i])

\* two words of different lengths reached the same niceness, the shorter one
\* came first in the dictionary, and the longer one alone was kept
C3_Witness ==
    /\ searched
    /\ options.maxResults = 1
    /\ Len(out.value.exactMatches) = 2
    /\ out.value.exactMatches[1].niceness = out.value.exactMatches[2].niceness
    /\ Len(out.value.exactMatches[1].word) < Len(out.value.exactMatches[2].word)
    /\ out.value.exact = <<out.value.exactMatches[2]>>

\* the entries of s in every order
Orderings(s) ==
    LET n == Len(s)
        bijections == {f \in [1..n -> 1..n] : \A i, j \in 1..n : f[i] = f[j] => i = j}
    IN  {[i \in 1..n |-> s[f[i]]] : f \in bijections}

NoDuplicates(s) == \A i, j \in 1..Len(s) : s[i] = s[j] => i = j

\* the lists the search returns for the dictionary in the order dict
listsFor(dict) ==
    IF out.op = "findAllMatches1"
    THEN LET r == findAllMatches1(titleInfoOfTitle, dict, buildWordSet(dict), options)
         IN  <<r.exact, r.compound, r.near>>
    ELSE LET r == findAllMatches2(titleInfoOfTitle, dict, buildWordSet(dict), options)
         IN  <<r.exact, r.compound, <<>>>>

returnedLists == <<out.value.exact, out.value.compound, nearOf(out.value)>>

TiesLexicographic(list) ==
    \A i, j \in 1..Len(list) :
        (i < j /\ list[i].niceness = list[j].niceness
               /\ Len(list[i].word) = Len(list[j].word))
            => ~LexLess(list[j].word, list[i].word)

\* C4 as stated: in the exact, compound and near lists two matches of equal
\* niceness and equal length are in ascending order of word, and the lists
\* are the same for every order of a dictionary without duplicates.
C4_TiesLexicographicAnyScanOrder ==
    searched =>
        /\ \A n \in 1..3 : TiesLexicographic(returnedLists[n])
        /\ NoDuplicates(allWords) =>
               \A dict \in Orderings(allWords) : listsFor(dict) = returnedLists

\* C5 as stated: no compound match has a word of the dictionary.
C5_CompoundNeverInDictionary ==
    searched =>
        \A i \in 1..Len(out.value.compound) :
            \A k \in 1..Len(allWords) : allWords[k] # out.value.compound[i].word

\* C6: no near match has the word of an exact match of the same result, and
\* no near match's word is a subsequence of the title's letters.
C6_NearDisjointFromExact ==
    searched =>
        \A i \in 1..Len(nearOf(out.value)) :
            LET w == nearOf(out.value)[i].word
            IN  /\ \A k \in 1..Len(out.value.exact) : out.value.exact[k].word # w
                /\ ~IsSubsequence(toLowerCase(w), titleInfoOfTitle.letters)

\* a result with an exact match and a near match
C6_Witness ==
    /\ searched
    /\ Len(nearOf(out.value)) > 0
    /\ Len(out.value.exact) > 0

\* C7: every returned match has niceness >= 0, every near match at most 50,
\* every exact and compound match at most 125.
C7_NicenessBounded ==
    searched =>
        /\ \A n \in 1..3 : \A i \in 1..Len(returnedLists[n]) :
               returnedLists[n][i].niceness >= 0
        /\ \A i \in 1..Len(nearOf(out.value)) : nearOf(out.value)[i].niceness <= 50000
        /\ \A n \in 1..2 : \A i \in 1..Len(returnedLists[n]) :
               returnedLists[n][i].niceness <= 125000

\* a near match at the cap of 50, whose unclamped closeness exceeds 1, beside
\* an exact match
C7_Witness ==
    /\ searched
    /\ Len(out.value.exact) > 0
    /\ \E i \in 1..Len(nearOf(out.value)) :
           /\ nearOf(out.value)[i].niceness = 50000
           /\ nearOf(out.value)[i].editDistance = 1

----------------------------------------------------------------------------
(* analyzeTitleTitle applied to a title.                                   *)

(* ' ', '1', 'a', 'B': a separator, a digit, a lower-case and an           *)
(* upper-case letter.                                                      *)
AnalyzeChars == {32, 49, 97, 66}
MaxAnalyzeLen == 5
AnalyzeTitles == StringsUpTo(AnalyzeChars, MaxAnalyzeLen)

InitAnalyze ==
    /\ title \in AnalyzeTitles
    /\ word = <<>>
    /\ other = <<>>
    /\ allWords = <<>>
    /\ options = DefaultOptions
    /\ out = Idle
    /\ app = NoApp

CallAnalyzeTitleTitle ==
    /\ out.op = "none"
    /\ out' = [op |-> "analyzeTitleTitle", value |-> analyzeTitleTitle(title)]
    /\ UNCHANGED <<title, word, other, allWords, options, app>>

NextAnalyze == CallAnalyzeTitleTitle

SpecAnalyze == InitAnalyze /\ [][NextAnalyze]_vars

analyzed == out.op = "analyzeTitleTitle"

\* c is an ASCII letter
IsAsciiLetter(c) == (65 <= c /\ c <= 90) \/ (97 <= c /\ c <= 122)

\* c in lower case
Lowered(c) == IF 65 <= c /\ c <= 90 THEN c + 32 ELSE c

\* C11: letters is the ASCII letters of the title, lower-cased, in order;
\* letterPositions has the same length, is strictly increasing and
\* letterPositions[i] is the place in the title of letters[i]; original is
\* the title.
C11_LettersAndPositions ==
    analyzed =>
        LET info == out.value
            kept == SelectSeq(title, IsAsciiLetter)
        IN  /\ info.original = title
            /\ info.letters = [i \in 1..Len(kept) |-> Lowered(kept[i])]
            /\ Len(info.letterPositions) = Len(info.letters)
            /\ \A i \in 1..Len(info.letterPositions) :
                   /\ info.letterPositions[i] \in 0..(Len(title) - 1)
                   /\ Lowered(title[info.letterPositions[i] + 1]) = info.letters[i]
            /\ \A i, j \in 1..Len(info.letterPositions) :
                   i < j => info.letterPositions[i] < info.letterPositions[j]

\* a title with an upper-case letter after a character that is no letter
C11_Witness ==
    /\ analyzed
    /\ \E i \in 2..Len(title) : title[i] \in 65..90 /\ ~IsAsciiLetter(title[i - 1])
    /\ Len(out.value.letters) >= 2
    /\ Len(out.value.letters) < Len(title)

\* the maximal runs of ASCII letters of t, as pairs <<start, end>> of 0-based
\* first place and place after the last
MaximalRuns(t) ==
    {r \in (0..Len(t)) \X (0..Len(t)) :
        /\ r[1] < r[2]
        /\ \A k \in (r[1] + 1)..r[2] : IsAsciiLetter(t[k])
        /\ (r[1] = 0 \/ ~IsAsciiLetter(t[r[1]]))
        /\ (r[2] = Len(t) \/ ~IsAsciiLetter(t[r[2] + 1]))}

\* C12: one TitleWord per maximal run of letters, left to right; each word's
\* letter range has the word's length, holds the word in letters and starts
\* at the letter whose place is startIndex; the ranges follow one another from
\* 0 to the length of letters; initials has one entry per word, its first
\* letter.
C12_WordsPerMaximalRun ==
    analyzed =>
        LET info == out.value
            ws == info.words
        IN  /\ Len(ws) = Cardinality(MaximalRuns(title))
            /\ \A i \in 1..Len(ws) :
                   /\ <<ws[i].startIndex, ws[i].startIndex + Len(ws[i].word)>>
                          \in MaximalRuns(title)
                   /\ ws[i].letterStartIndex =
                          (IF i = 1 THEN 0 ELSE ws[i - 1].letterEndIndex)
                   /\ ws[i].letterEndIndex - ws[i].letterStartIndex = Len(ws[i].word)
                   /\ SubSeq(info.letters, ws[i].letterStartIndex + 1, ws[i].letterEndIndex)
                          = ws[i].word
                   /\ info.letterPositions[ws[i].letterStartIndex + 1] = ws[i].startIndex
            /\ \A i, j \in 1..Len(ws) : i < j => ws[i].startIndex < ws[j].startIndex
            /\ (IF Len(ws) = 0 THEN 0 ELSE ws[Len(ws)].letterEndIndex) = Len(info.letters)
            /\ Len(info.initials) = Len(ws)
            /\ \A i \in 1..Len(ws) : info.initials[i] = ws[i].word[1]

\* two words, the second in upper case, after a leading character that is no
\* letter: startIndex and letterStartIndex differ
C12_Witness ==
    /\ analyzed
    /\ Len(out.value.words) = 2
    /\ out.value.words[1].startIndex > 0
    /\ out.value.words[2].letterStartIndex < out.value.words[2].startIndex - 1
    /\ title[out.value.words[2].startIndex + 1] \in 65..90

----------------------------------------------------------------------------
(* Titles without letters and empty dictionaries.                          *)

NoLetters(t) == \A i \in 1..Len(t) : ~IsAsciiLetter(t[i])

AllListsEmpty ==
    /\ out.value.exact = <<>>
    /\ out.value.compound = <<>>
    /\ nearOf(out.value) = <<>>

\* C13: a title without an ASCII letter is analysed to empty letters, words
\* and initials, and the search on it returns empty exact, compound and near
\* lists for every dictionary and options with minLength >= 1; an empty
\* dictionary gives empty lists for every title.
C13_NoLettersOrNoWordsNoMatches ==
    searched =>
        /\ NoLetters(title) =>
               /\ titleInfoOfTitle.letters = <<>>
               /\ titleInfoOfTitle.words = <<>>
               /\ titleInfoOfTitle.initials = <<>>
               /\ (options.minLength >= 1 => AllListsEmpty)
        /\ allWords = <<>> => AllListsEmpty

\* a search with every category enabled on a title of spaces alone, with two
\* dictionary words of two letters or more and room for near matches
C13_Witness ==
    /\ out.op = "findAllMatches1"
    /\ Len(title) >= 2
    /\ NoLetters(title)
    /\ Len(allWords) = 2
    /\ \A k \in 1..2 : Len(allWords[k]) >= 2
    /\ options.maxResults >= 2
    /\ options.includeNearMatches

----------------------------------------------------------------------------
(* findNearMatches applied to a title, a dictionary, maxEditDistance and   *)
(* maxResults.                                                             *)

MaxEditBound == 3
MaxNearResults == 2

NearOptions ==
    [maxEditDistance : 0..MaxEditBound, maxResults : 0..MaxNearResults]

InitNear ==
    /\ title \in Titles
    /\ word = <<>>
    /\ other = <<>>
    /\ allWords \in Dictionaries
    /\ options \in NearOptions
    /\ out = Idle
    /\ app = NoApp

CallFindNearMatches ==
    /\ out.op = "none"
    /\ out' = [op |-> "findNearMatches",
               value |-> findNearMatches(analyzeTitleTitle(title), allWords,
                                         options.maxEditDistance, options.maxResults)]
    /\ UNCHANGED <<title, word, other, allWords, options, app>>

NextNear == CallFindNearMatches

SpecNear == InitNear /\ [][NextNear]_vars

\* C14: for a title of fewer than two words the near-match search returns an
\* empty list, for every dictionary and every maxEditDistance.
C14_FewerThanTwoWordsNoNear ==
    out.op = "findNearMatches" =>
        (Cardinality(MaximalRuns(title)) < 2 => out.value = <<>>)

\* a title of one word and a dictionary word at distance 1 from its initial,
\* with room for results
C14_Witness ==
    /\ out.op = "findNearMatches"
    /\ Cardinality(MaximalRuns(title)) = 1
    /\ options.maxEditDistance >= 1
    /\ options.maxResults >= 1
    /\ \E k \in 1..Len(allWords) :
           /\ Len(allWords[k]) = 2
           /\ allWords[k][1] = titleInfoOfTitle.initials[1]
           /\ ~IsSubsequence(allWords[k], titleInfoOfTitle.letters)

----------------------------------------------------------------------------
(* calculateNiceness applied to a title's analysis, a word and the indices *)
(* the matcher returns for the word.                                       *)

MaxScoreLen == 5
ScoreTitles == StringsUpTo(TitleChars, MaxScoreLen)

InitNiceness ==
    /\ title \in ScoreTitles
    /\ word \in ProbeWords
    /\ other = <<>>
    /\ allWords = <<>>
    /\ options = DefaultOptions
    /\ out = Idle
    /\ app = NoApp

matchedIndices == findWordInTitle(analyzeTitleTitle(title), word)

CallCalculateNiceness1 ==
    /\ out.op = "none"
    /\ matchedIndices.found
    /\ out' = [op |-> "calculateNiceness1",
               value |-> calculateNiceness1(analyzeTitleTitle(title), word,
                                            matchedIndices.indices)]
    /\ UNCHANGED <<title, word, other, allWords, options, app>>

CallCalculateNiceness2 ==
    /\ out.op = "none"
    /\ matchedIndices.found
    /\ out' = [op |-> "calculateNiceness2",
               value |-> calculateNiceness2(analyzeTitleTitle(title), word,
                                            matchedIndices.indices)]
    /\ UNCHANGED <<title, word, other, allWords, options, app>>

NextNiceness == CallCalculateNiceness1 \/ CallCalculateNiceness2

SpecNiceness == InitNiceness /\ [][NextNiceness]_vars

scored == out.op \in {"calculateNiceness1", "calculateNiceness2"}

\* C15 as stated: calculateNiceness returns a number, never NaN, also for a
\* title without words and for the empty word, for which every sub-score is 0.
C15_NicenessDefined ==
    scored =>
        /\ out.value # NaN
        /\ (Len(word) = 0 => out.value = 0)

\* the score C20 states, in units of 1/1000, for a non-empty word matched at
\* the places idx of the title t

RECURSIVE Factorial(_)
Factorial(n) == IF n = 0 THEN 1 ELSE n * Factorial(n - 1)

\* a multiple of every divisor max(length - 1, 1) of a title word
PositionUnit == Factorial(MaxScoreLen)

\* the maximal run of letters that holds the place p
RunOf(t, p) == CHOOSE r \in MaximalRuns(t) : r[1] <= p /\ p < r[2]

RECURSIVE SumOver(_, _)
SumOver(f, n) == IF n = 0 THEN 0 ELSE f[n] + SumOver(f, n - 1)

\* the length of the longest common prefix of a and b
CommonPrefix(a, b) ==
    CHOOSE k \in 0..Min(Len(a), Len(b)) :
        /\ \A i \in 1..k : a[i] = b[i]
        /\ (k = Min(Len(a), Len(b)) \/ a[k + 1] # b[k + 1])

ClaimedNiceness(t, w, idx) ==
    LET runs == MaximalRuns(t)
        firstRun == CHOOSE r \in runs : \A q \in runs : r[1] <= q[1]
        first == IF \E i \in 1..Len(idx) : idx[i] = firstRun[1] THEN 25 ELSE 0
        touched == Cardinality({RunOf(t, idx[i]) : i \in 1..Len(idx)})
        nw == Cardinality(runs)
        \* PositionUnit * (1 - positionInTitleWord / max(titleWordLength - 1, 1))
        posScore == [i \in 1..Len(idx) |->
                        LET r == RunOf(t, idx[i])
                        IN  PositionUnit
                            - (idx[i] - r[1]) * (PositionUnit \div Max(r[2] - r[1] - 1, 1))]
        initials == analyzeTitleTitle(t).initials
        k == CommonPrefix([i \in 1..Len(w) |-> Lowered(w[i])], initials)
        d == nw * PositionUnit * Len(w) * Len(initials)
        \* the sum in hundredths, times d
        n == 2500 * d
                 * (IF first = 25 THEN 1 ELSE 0)
             + 4000 * touched * (d \div nw)
             + 3000 * SumOver(posScore, Len(idx)) * (d \div (PositionUnit * Len(w)))
             + 2000 * k * (d \div Len(initials))
             + 100 * Min(Len(w), 10) * d
    IN  10 * ((2 * n + d) \div (2 * d))

\* C20 as stated: for a matched, non-empty word calculateNiceness returns,
\* rounded to 2 decimals, 25 for the first title word's first letter, 40 times
\* the share of title words touched, 30 times the mean over the word's
\* letters of 1 - positionInTitleWord / max(titleWordLength - 1, 1), 20 times
\* k / initials.length for the common prefix k with the initials, and
\* min(word.length, 10).
C20_NicenessFormula ==
    (scored /\ Len(word) > 0) =>
        out.value = ClaimedNiceness(title, word, matchedIndices.indices)

----------------------------------------------------------------------------
(* The scenarios of the specification: the titles "Distributed Consensus   *)
(* Engine" and "Cat Dog" searched with dictionaries of the scenarios'      *)
(* words.                                                                  *)

DistributedConsensusEngine ==
    <<68, 105, 115, 116, 114, 105, 98, 117, 116, 101, 100,
     32, 67, 111, 110, 115, 101, 110, 115, 117, 115,
     32, 69, 110, 103, 105, 110, 101>>
CatDog == <<67, 97, 116, 32, 68, 111, 103>>

dice == <<100, 105, 99, 101>>
dce == <<100, 99, 101>>
dye == <<100, 121, 101>>
cod == <<99, 111, 100>>
cat == <<99, 97, 116>>
dog == <<100, 111, 103>>
catdog == <<99, 97, 116, 100, 111, 103>>

ScenarioWords == {dice, dce, dye, cod, cat, dog, catdog}
MaxScenarioDictLen == 4

\* the dictionaries of up to MaxScenarioDictLen different scenario words
ScenarioDictionaries ==
    {d \in SeqsUpTo(ScenarioWords, MaxScenarioDictLen) : NoDuplicates(d)}

ScenarioOptions ==
    [minLength : {1, 3},
     maxResults : {2, 4, 8},
     searchTerm : {<<>>},
     includeCompounds : {TRUE},
     includeNearMatches : {TRUE}]

InitScenario ==
    /\ title \in {DistributedConsensusEngine, CatDog}
    /\ word = <<>>
    /\ other = <<>>
    /\ allWords \in ScenarioDictionaries
    /\ options \in ScenarioOptions
    /\ out = Idle
    /\ app = NoApp

SpecScenario == InitScenario /\ [][NextSearch]_vars

Holds(dict, w) == \E k \in 1..Len(dict) : dict[k] = w

\* the scenario of C16: the search of lines 346-408 on "Distributed Consensus
\* Engine" with "dice" in the dictionary and no list cut short
DiceSearched ==
    /\ out.op = "findAllMatches1"
    /\ title = DistributedConsensusEngine
    /\ Holds(allWords, dice)
    /\ options.includeNearMatches
    /\ options.maxResults >= 2 * Len(allWords)

\* C16 as stated: "dice" is returned in the near category with editDistance 1.
C16_DiceIsNear ==
    DiceSearched =>
        \E i \in 1..Len(out.value.near) :
            /\ out.value.near[i].word = dice
            /\ out.value.near[i].editDistance = 1

\* C16 amended: the initials are "dce" and "dice" is at edit distance 1 from
\* them, but "dice" is a subsequence of the title's letters: it is returned
\* in the exact category and not in the near category.
C16_DiceIsExactNotNear ==
    DiceSearched =>
        /\ titleInfoOfTitle.initials = dce
        /\ editDistance(dice, titleInfoOfTitle.initials) = 1
        /\ IsSubsequence(dice, titleInfoOfTitle.letters)
        /\ \E i \in 1..Len(out.value.exact) :
               out.value.exact[i].word = dice /\ out.value.exact[i].type = "exact"
        /\ \A i \in 1..Len(out.value.near) : out.value.near[i].word # dice

\* "dice" is returned as an exact match, and "dye", at edit distance 1 from
\* the initials and no subsequence of the letters, as a near match
C16_Witness ==
    /\ DiceSearched
    /\ Holds(out.value.exact, [word |-> dice, type |-> "exact",
                               indices |-> <<0, 1, 12, 16>>, niceness |-> 63320])
    /\ \E i \in 1..Len(out.value.near) :
           out.value.near[i].word = dye /\ out.value.near[i].editDistance = 1

\* the scenario of C17
CatDogSearched ==
    /\ searched
    /\ title = CatDog
    /\ allWords = <<cod, cat, dog, catdog>>
    /\ options.minLength = 3
    /\ options.maxResults >= 4
    /\ options.searchTerm = <<>>
    /\ options.includeCompounds

\* C17 as stated: the exact list contains "cat", "dog", "cod" and "catdog",
\* and the compound list does not contain "catdog".
C17_CatDogWithCod ==
    CatDogSearched =>
        /\ {cat, dog, cod, catdog} \subseteq wordsOf(out.value.exact)
        /\ catdog \notin wordsOf(out.value.compound)

\* C17 amended: the exact list contains "cat", "dog" and "catdog" and not
\* "cod", which is no subsequence of "catdog" ('d' comes before 'o'); the
\* compound list does not contain "catdog".
C17_CatDogWithoutCod ==
    CatDogSearched =>
        /\ ~IsSubsequence(cod, titleInfoOfTitle.letters)
        /\ wordsOf(out.value.exact) = {cat, dog, catdog}
        /\ Len(out.value.exact) = 3
        /\ catdog \notin wordsOf(out.value.compound)

\* the scenario was searched by the version that builds compounds from the
\* exact matches, "catdog" came first and no compound was returned
C17_Witness ==
    /\ CatDogSearched
    /\ out.op = "findAllMatches2"
    /\ out.value.exact[1].word = catdog
    /\ out.value.exact[1].niceness = 96000
    /\ out.value.compound = <<>>

----------------------------------------------------------------------------
(* The App component: the dictionary loader, performSearch and the timer   *)
(* that runs the search.  src/unnamed/part_000 lines 76-165 is the App     *)
(* over the engine of lines 12-408 (engine 1), src/src/App.tsx lines       *)
(* 327-400 the App over the engine of lines 410-714 (engine 2).  The title *)
(* is the variable title, the words state the variable allWords, the       *)
(* option states the variable options; wordSet is set together with words  *)
(* and is buildWordSet(allWords).                                          *)

MaxTextLen == 3
MaxTimers == 2
MaxSearches == 2

(* The body of the response: '\n', ' ', 'a', 'B'.                          *)
TextChars == {10, 32, 97, 66}
Texts == StringsUpTo(TextChars, MaxTextLen)

(* What the user types as title: "", " ", "a", "a B".                      *)
AppTitles == {<<>>, <<32>>, <<97>>, <<97, 32, 66>>}

AppOptions ==
    [minLength : {1},
     maxResults : {2},
     searchTerm : {<<>>},
     includeCompounds : {TRUE},
     includeNearMatches : {TRUE}]

\* text.split('\n'): the lines of text, cur being the line read so far
RECURSIVE splitLines(_, _, _)
splitLines(text, i, cur) ==
    IF i > Len(text) THEN <<cur>>
    ELSE IF text[i] = 10 THEN <<cur>> \o splitLines(text, i + 1, <<>>)
    ELSE splitLines(text, i + 1, Append(cur, text[i]))

\* text.split('\n').map(w => w.trim().toLowerCase()).filter(w => w.length > 0)
wordList(text) ==
    LET lines == splitLines(text, 1, <<>>)
        cleaned == [i \in 1..Len(lines) |-> toLowerCase(trim(lines[i]))]
    IN  SelectSeq(cleaned, LAMBDA w : Len(w) > 0)

\* the results state before any search and after a refused search
emptyResults(engine) ==
    IF engine = 1
    THEN [exact |-> <<>>, compound |-> <<>>, near |-> <<>>, searchedTitle |-> <<>>]
    ELSE [exact |-> <<>>, compound |-> <<>>, searchedTitle |-> <<>>]

\* mutant: performSearch refuses a blank title only
searchRefusedBlankTitleOnly(t, words) == Len(trim(t)) = 0

\* the guard of performSearch: !title.trim() || words.length === 0
searchRefused(t, words) == Len(trim(t)) = 0 \/ Len(words) = 0

InitApp ==
    /\ title = <<>>
    /\ word = <<>>
    /\ other = <<>>
    /\ allWords = <<>>
    /\ options \in AppOptions
    /\ out = Idle
    /\ app \in [mounted : {TRUE},
                engine : {1, 2},
                fetch : {"pending"},
                loading : {TRUE},
                searching : {FALSE},
                results : {emptyResults(1), emptyResults(2)},
                timers : {<<>>},
                searches : {0},
                asked : {<<>>}]
    /\ app.results = emptyResults(app.engine)

\* the promise of fetch and res.text() is fulfilled with the body text
FetchResolves ==
    /\ app.mounted /\ app.fetch = "pending"
    /\ \E text \in Texts :
           /\ allWords' = wordList(text)
           /\ app' = [app EXCEPT !.fetch = "resolved", !.loading = FALSE]
    /\ UNCHANGED <<title, word, other, options, out>>

\* the promise is rejected: the catch handler runs
FetchRejects ==
    /\ app.mounted /\ app.fetch = "pending"
    /\ app' = [app EXCEPT !.fetch = "rejected", !.loading = FALSE]
    /\ UNCHANGED <<title, word, other, allWords, options, out>>

\* the user types a title; the input is rendered once loading is over
SetTitle ==
    /\ app.mounted /\ ~app.loading
    /\ \E t \in AppTitles : t # title /\ title' = t
    /\ UNCHANGED <<word, other, allWords, options, out, app>>

\* performSearch; searches counts the calls and asked is the title of the
\* last call
PerformSearch ==
    /\ app.mounted /\ ~app.loading
    /\ app.searches < MaxSearches
    /\ Len(app.timers) < MaxTimers
    /\ IF searchRefused(title, allWords)
       THEN app' = [app EXCEPT !.results = emptyResults(app.engine),
                               !.searches = @ + 1,
                               !.asked = title]
       ELSE app' = [app EXCEPT !.searching = TRUE,
                               !.timers = Append(@, [title |-> title,
                                                     words |-> allWords,
                                                     options |-> options]),
                               !.searches = @ + 1,
                               !.asked = title]
    /\ UNCHANGED <<title, word, other, allWords, options, out>>

\* the button, disabled while searching is set or the title is blank
ClickSearch ==
    /\ ~app.searching
    /\ Len(trim(title)) > 0
    /\ PerformSearch

\* the Enter key in the title input: handleKeyDown calls performSearch
PressEnter ==
    /\ app.mounted
    /\ PerformSearch

\* the callback of setTimeout runs with the state performSearch captured
TimerFires ==
    /\ app.mounted /\ Len(app.timers) > 0
    /\ LET c == Head(app.timers)
           titleInfo == analyzeTitleTitle(c.title)
           wordSet == buildWordSet(c.words)
           r1 == findAllMatches1(titleInfo, c.words, wordSet, c.options)
           r2 == findAllMatches2(titleInfo, c.words, wordSet, c.options)
           results == IF app.engine = 1
                      THEN [exact |-> r1.exact, compound |-> r1.compound,
                            near |-> r1.near, searchedTitle |-> c.title]
                      ELSE [exact |-> r2.exact, compound |-> r2.compound,
                            searchedTitle |-> c.title]
       IN  app' = [app EXCEPT !.results = results,
                              !.searching = FALSE,
                              !.timers = Tail(@)]
    /\ UNCHANGED <<title, word, other, allWords, options, out>>

NextApp ==
    \/ FetchResolves
    \/ FetchRejects
    \/ SetTitle
    \/ ClickSearch
    \/ PressEnter
    \/ TimerFires

SpecApp == InitApp /\ [][NextApp]_vars

NoMatchesShown ==
    /\ app.results.exact = <<>>
    /\ app.results.compound = <<>>
    /\ (app.engine = 1 => app.results.near = <<>>)

----------------------------------------------------------------------------
(* The embedding findWordInTitle returns.                                  *)

\* the character at the 0-based place p of the title is the letter c, in
\* either case
HoldsLetter(p, c) ==
    /\ p \in 0..(Len(title) - 1)
    /\ IsAsciiLetter(title[p + 1])
    /\ Lowered(title[p + 1]) = Lowered(c)

\* C19: the indices of a found word are strictly increasing places of the
\* title, and the k-th is the first place after the (k-1)-th that holds the
\* k-th character of the lower-cased word.
C19_LeftmostEmbedding ==
    (out.op = "findWordInTitle" /\ out.value.found) =>
        LET idx == out.value.indices
        IN  \A k \in 1..Len(idx) :
                LET prev == IF k = 1 THEN -1 ELSE idx[k - 1]
                IN  /\ prev < idx[k]
                    /\ HoldsLetter(idx[k], word[k])
                    /\ \A p \in (prev + 1)..(idx[k] - 1) : ~HoldsLetter(p, word[k])

\* a word of two letters was found with its first letter at the first of two
\* places that hold it, after a character that is no letter, and its second
\* letter further on
C19_Witness ==
    /\ out.op = "findWordInTitle"
    /\ out.value.found
    /\ Len(word) = 2
    /\ out.value.indices[1] = 1
    /\ HoldsLetter(2, word[1])
    /\ out.value.indices[2] = 3

----------------------------------------------------------------------------
(* generateCompoundMatches called as findAllMatches calls it (lines        *)
(* 664-709), and with a smaller pool than its default.                     *)

MaxCompoundTitleLen == 5
MaxCompoundDictLen == 3

(* "aa", "ab", "ba" and "aab": two-letter components are allowed when      *)
(* minLength is 2 or less (line 698).                                      *)
CompoundWords == {<<97, 97>>, <<97, 98>>, <<98, 97>>, <<97, 97, 98>>}

CompoundTitles == StringsUpTo({32, 97, 98}, MaxCompoundTitleLen)
CompoundDictionaries == SeqsUpTo(CompoundWords, MaxCompoundDictLen)

(* "", " a" and "B" as filters; a compound list of one and of two rows.    *)
CompoundOptions ==
    [minLength : {2, 3},
     maxResults : {2, 4},
     searchTerm : SearchTerms,
     includeCompounds : {TRUE},
     includeNearMatches : {FALSE}]

(* The default pool of 80 entries, and pools of one and two.               *)
PoolSizes == {1, 2, componentPoolSize}

InitCompound ==
    /\ title \in CompoundTitles
    /\ word = <<>>
    /\ other = <<>>
    /\ allWords \in CompoundDictionaries
    /\ options \in CompoundOptions
    /\ out = Idle
    /\ app = NoApp

\* the arguments findAllMatches hands to generateCompoundMatches
compoundArguments(titleInfo, dict, opts) ==
    [exactMatches |-> sort(exactLoop2(titleInfo, dict, opts, Len(dict)), "full"),
     searchLower |-> toLowerCase(trim(opts.searchTerm)),
     minWordLength |-> opts.minLength,
     maxResults |-> Max(1, opts.maxResults \div 2),
     minComponentLength |-> Max(2, Min(4, opts.minLength))]

CallGenerateCompoundMatches ==
    /\ out.op = "none"
    /\ \E poolSize \in PoolSizes :
         LET titleInfo == analyzeTitleTitle(title)
             args == compoundArguments(titleInfo, allWords, options)
         IN  out' = [op |-> "generateCompoundMatches",
                     poolSize |-> poolSize,
                     value |-> generateCompoundMatches(
                                   titleInfo, args.exactMatches, buildWordSet(allWords),
                                   args.searchLower, args.minWordLength, args.maxResults,
                                   args.minComponentLength, poolSize)]
    /\ UNCHANGED <<title, word, other, allWords, options, app>>

NextCompound == CallFindAllMatches2 \/ CallGenerateCompoundMatches

SpecCompound == InitCompound /\ [][NextCompound]_vars

\* a compound list was produced, by the generator or by the search around it
compounded == out.op \in {"generateCompoundMatches", "findAllMatches2"}

compoundsOut ==
    IF out.op = "generateCompoundMatches" THEN out.value ELSE out.value.compound

poolSizeUsed ==
    IF out.op = "generateCompoundMatches" THEN out.poolSize ELSE componentPoolSize

given == compoundArguments(titleInfoOfTitle, allWords, options)

\* the exact matches long enough to be components
UsableMatches ==
    SelectSeq(given.exactMatches, LAMBDA m : Len(m.word) >= given.minComponentLength)

\* how many entries with the word w the pool holds: those of the usable
\* matches that have fewer than poolSizeUsed entries ranking above them, an
\* entry of the same word counting as ranking above the next one
InPool(usable, w) ==
    LET above == Cardinality({i \in 1..Len(usable) :
                     \E k \in 1..Len(usable) :
                         /\ usable[k].word = w
                         /\ RanksAbove(usable[i], usable[k])})
    IN  Max(0, Min(Count(usable, w), poolSizeUsed - above))

----------------------------------------------------------------------------
(* The niceness of a compound match.                                       *)

\* calculateNiceness of the version that ran
nicenessOfVersion(titleInfo, w, indices) ==
    IF out.op = "findAllMatches1" THEN calculateNiceness1(titleInfo, w, indices)
    ELSE calculateNiceness2(titleInfo, w, indices)

\* r is n times 0.9 rounded to 2 decimals (n and r in thousandths): a whole
\* number of hundredths, no more than half a hundredth below 0.9 n and less
\* than half a hundredth above it
IsNineTenthsRounded(r, n) ==
    /\ r % 10 = 0
    /\ 10 * r - 50 <= 9 * n
    /\ 9 * n < 10 * r + 50

\* C22: the niceness of every compound match is calculateNiceness of its
\* word and indices, times 0.9, rounded to 2 decimals.
C22_CompoundNiceness ==
    (searched \/ compounded) =>
        \A n \in 1..Len(compoundsOut) :
            LET c == compoundsOut[n]
            IN  IsNineTenthsRounded(c.niceness,
                    nicenessOfVersion(titleInfoOfTitle, c.word, c.indices))

----------------------------------------------------------------------------
(* The compound list against itself and against the exact list.            *)

\* C23: the compound list holds no word twice, and no word of an exact match
\* returned with it.
C23_CompoundsDistinctAndNotExact ==
    searched =>
        /\ \A i, k \in 1..Len(out.value.compound) :
               i # k => out.value.compound[i].word # out.value.compound[k].word
        /\ \A i \in 1..Len(out.value.compound) :
               \A k \in 1..Len(out.value.exact) :
                   out.value.compound[i].word # out.value.exact[k].word

\* two entries of different lengths, whose two orders spell the same word,
\* gave one compound
C23_Witness ==
    /\ out.op = "findAllMatches2"
    /\ Len(allWords) = 2
    /\ Len(allWords[1]) # Len(allWords[2])
    /\ allWords[1] \o allWords[2] = allWords[2] \o allWords[1]
    /\ Len(out.value.exact) = 2
    /\ Len(out.value.compound) = 1
    /\ out.value.compound[1].word = allWords[1] \o allWords[2]

----------------------------------------------------------------------------
(* What a near match records.                                              *)

\* C24: the editDistance of every near match is the Levenshtein distance
\* between its lower-cased word and the title's initials and lies in
\* 1..maxEditDistance; the length of its word lies between
\* max(2, initials.length - maxEditDistance) and
\* initials.length + maxEditDistance + 2; no dictionary word equal to the
\* initials is a near match.
C24_NearDistanceAndLength ==
    out.op = "findNearMatches" =>
        LET initials == titleInfoOfTitle.initials
            maxEditDistance == options.maxEditDistance
        IN  \A n \in 1..Len(out.value) :
                LET c == out.value[n]
                IN  /\ c.type = "near"
                    /\ c.editDistance = Levenshtein(toLowerCase(c.word), initials)
                    /\ 1 <= c.editDistance
                    /\ c.editDistance <= maxEditDistance
                    /\ Len(c.word) >= Max(2, Len(initials) - maxEditDistance)
                    /\ Len(c.word) <= Len(initials) + maxEditDistance + 2
                    /\ c.word # initials

\* a near match as far from the initials as allowed, next to a dictionary
\* word of one letter that is as near and no subsequence of the letters
C24_Witness ==
    /\ out.op = "findNearMatches"
    /\ Len(out.value) = 1
    /\ out.value[1].editDistance = options.maxEditDistance
    /\ \E k \in 1..Len(allWords) :
           /\ Len(allWords[k]) = 1
           /\ Levenshtein(allWords[k], titleInfoOfTitle.initials) <= options.maxEditDistance
           /\ ~IsSubsequence(allWords[k], titleInfoOfTitle.letters)

----------------------------------------------------------------------------
(* The niceness of a near match.                                           *)

\* closeness of a candidate at distance d, as a fraction num / den:
\* 1 - d / (maxEditDistance + 1), plus 2/10 when first, plus 3/10 when sub
ClosenessDen(maxEditDistance) == 10 * (maxEditDistance + 1)

ClosenessNum(d, maxEditDistance, first, sub) ==
    10 * (maxEditDistance + 1 - d)
    + (IF first THEN 2 * (maxEditDistance + 1) ELSE 0)
    + (IF sub THEN 3 * (maxEditDistance + 1) ELSE 0)

\* r (in thousandths) is min(num / den, 1) * 50 rounded to 2 decimals
IsFiftyTimesClamped(r, num, den) ==
    LET clamped == IF num > den THEN den ELSE num
    IN  /\ r % 10 = 0
        /\ (r - 5) * den <= 50000 * clamped
        /\ 50000 * clamped < (r + 5) * den

\* C25: the niceness of a near match at edit distance d is min(c, 1) * 50
\* rounded to 2 decimals, c being 1 - d / (maxEditDistance + 1), plus 0.2
\* when the word's first letter is the first initial, plus 0.3 when the
\* initials are a subsequence of the word.
C25_NearNiceness ==
    out.op = "findNearMatches" =>
        LET initials == titleInfoOfTitle.initials
        IN  \A n \in 1..Len(out.value) :
                LET c == out.value[n]
                    w == toLowerCase(c.word)
                IN  IsFiftyTimesClamped(
                        c.niceness,
                        ClosenessNum(c.editDistance, options.maxEditDistance,
                                     w[1] = initials[1], IsSubsequence(initials, w)),
                        ClosenessDen(options.maxEditDistance))

\* a near match with the first initial in front, without the initials as a
\* subsequence, below the clamp
C25_Witness ==
    /\ out.op = "findNearMatches"
    /\ Len(out.value) >= 1
    /\ out.value[1].word[1] = titleInfoOfTitle.initials[1]
    /\ ~IsSubsequence(titleInfoOfTitle.initials, out.value[1].word)
    /\ out.value[1].niceness < 50000

----------------------------------------------------------------------------
(* The indices of a near match.                                            *)

\* the 0-based place in t where its i-th maximal run of letters starts
NthRunStart(t, i) ==
    LET starts == {r[1] : r \in MaximalRuns(t)}
    IN  CHOOSE p \in starts : Cardinality({q \in starts : q < p}) = i - 1

\* the first letters of the maximal runs of letters of t, lower-cased
RunInitials(t) ==
    [i \in 1..Cardinality(MaximalRuns(t)) |-> Lowered(t[NthRunStart(t, i) + 1])]

\* how many initials a walk through w matches that never retreats and ends
\* when an initial is not found: the longest prefix of the initials that is
\* a subsequence of w
WalkMatches(initials, w) ==
    CHOOSE k \in 0..Len(initials) :
        /\ IsSubsequence(SubSeq(initials, 1, k), w)
        /\ \A j \in (k + 1)..Len(initials) : ~IsSubsequence(SubSeq(initials, 1, j), w)

\* C26: the indices of a near match are the places in the title where the
\* words of the initials matched by the walk through the candidate start:
\* one per matched initial, each the start of a title word, strictly
\* increasing, at most min(initials.length, word.length) of them.
C26_NearIndicesAreWordStarts ==
    out.op = "findNearMatches" =>
        \A n \in 1..Len(out.value) :
            LET c == out.value[n]
                w == toLowerCase(c.word)
                initials == RunInitials(title)
                k == WalkMatches(initials, w)
            IN  /\ Len(c.indices) = k
                /\ k <= Min(Len(initials), Len(w))
                /\ \A i \in 1..Len(c.indices) : c.indices[i] = NthRunStart(title, i)
                /\ \A i \in 2..Len(c.indices) : c.indices[i - 1] < c.indices[i]

\* a near match whose first letter is not the first initial matched both
\* initials, the first title word starting after a space
C26_Witness ==
    /\ out.op = "findNearMatches"
    /\ Len(out.value) >= 1
    /\ Len(out.value[1].indices) = 2
    /\ out.value[1].indices[1] = 1
    /\ out.value[1].word[1] # RunInitials(title)[1]

----------------------------------------------------------------------------
(* findNearMatches on dictionaries of three entries, called directly and   *)
(* from findAllMatches (lines 402-405), so that the scan can end before    *)
(* the dictionary does.                                                    *)

MaxCutTitleLen == 3
MaxCutDictLen == 3
MaxCutResults == 3

CutTitles == StringsUpTo(TitleChars, MaxCutTitleLen)
CutWords == {w \in DictWords : Len(w) >= 2}
CutDictionaries == SeqsUpTo(CutWords, MaxCutDictLen)

CutOptions ==
    [maxEditDistance : {1, 2},
     maxResults : 0..MaxCutResults,
     minLength : {1},
     searchTerm : {<<>>},
     includeCompounds : {FALSE},
     includeNearMatches : {TRUE}]

InitNearCut ==
    /\ title \in CutTitles
    /\ word = <<>>
    /\ other = <<>>
    /\ allWords \in CutDictionaries
    /\ options \in CutOptions
    /\ out = Idle
    /\ app = NoApp

NextNearCut == CallFindNearMatches \/ CallFindAllMatches1

SpecNearCut == InitNearCut /\ [][NextNearCut]_vars

nearListed == out.op \in {"findNearMatches", "findAllMatches1"}

nearOut == IF out.op = "findNearMatches" THEN out.value ELSE out.value.near

\* the target count and the distance bound findNearMatches ran with
targetUsed ==
    IF out.op = "findNearMatches" THEN options.maxResults ELSE options.maxResults \div 2

maxEditDistanceUsed ==
    IF out.op = "findNearMatches" THEN options.maxEditDistance ELSE 2

\* the dictionary entries that qualify as near matches, by their places
QualifyingEntries ==
    LET initials == RunInitials(title)
        m == maxEditDistanceUsed
    IN  {k \in 1..Len(allWords) :
            LET w == allWords[k]
                d == Levenshtein(toLowerCase(w), initials)
            IN  /\ Len(w) >= Max(2, Len(initials) - m)
                /\ Len(w) <= Len(initials) + m + 2
                /\ 1 <= d
                /\ d <= m
                /\ ~IsSubsequence(w, titleInfoOfTitle.letters)}

\* the first 2 * target of them
CollectedEntries ==
    LET qualifying == QualifyingEntries
    IN  {k \in qualifying : Cardinality({j \in qualifying : j < k}) < 2 * targetUsed}

\* the niceness of the candidate w is no greater than r (in thousandths,
\* a whole number of hundredths): min(c, 1) * 50 lies below r plus half a
\* hundredth
NicenessAtMost(w, r) ==
    LET initials == RunInitials(title)
        m == maxEditDistanceUsed
        den == ClosenessDen(m)
        num == ClosenessNum(Levenshtein(toLowerCase(w), initials), m,
                            toLowerCase(w)[1] = initials[1],
                            IsSubsequence(initials, toLowerCase(w)))
    IN  50000 * (IF num > den THEN den ELSE num) < (r + 5) * den

\* C27: findNearMatches collects the first 2 * target qualifying candidates
\* of the dictionary and no more, and returns them by niceness descending,
\* at most target of them: the returned matches are collected candidates, as
\* many as target allows, and no collected candidate left out is nicer than
\* a returned one.  From findAllMatches target is floor(maxResults / 2).
C27_NearCollectsTwiceTarget ==
    nearListed =>
        LET res == nearOut
            collected == CollectedEntries
            held(w) == Cardinality({k \in collected : allWords[k] = w})
        IN  /\ Len(res) <= targetUsed
            /\ \A i, j \in 1..Len(res) : i < j => res[i].niceness >= res[j].niceness
            /\ Cardinality(MaximalRuns(title)) >= 2 =>
                 /\ Len(res) = Min(targetUsed, Cardinality(collected))
                 /\ \A i \in 1..Len(res) : Count(res, res[i].word) <= held(res[i].word)
                 /\ \A k \in collected :
                        Count(res, allWords[k]) < held(allWords[k]) =>
                            \A i \in 1..Len(res) :
                                NicenessAtMost(allWords[k], res[i].niceness)

\* the search gave one near match out of three qualifying entries, the
\* third of which is nicer than the one returned
C27_Witness ==
    /\ out.op = "findAllMatches1"
    /\ targetUsed = 1
    /\ Len(out.value.near) = 1
    /\ QualifyingEntries = {1, 2, 3}
    /\ ~NicenessAtMost(allWords[3], out.value.near[1].niceness)

----------------------------------------------------------------------------
(* The first-letter bonus of the exact matches.                            *)

\* the 0-based place of the first letter of t
FirstLetterPlace(t) ==
    CHOOSE p \in 0..(Len(t) - 1) :
        /\ IsAsciiLetter(t[p + 1])
        /\ \A q \in 0..(p - 1) : ~IsAsciiLetter(t[q + 1])

\* C28: the niceness of an exact match of the search of lines 651-714 holds
\* the 25 points for the title's first letter exactly when the word's first
\* character is that letter: the match then uses the first letter's place.
C28_BonusIffFirstLetter ==
    out.op = "findAllMatches2" =>
        \A n \in 1..Len(out.value.exact) :
            LET m == out.value.exact[n]
                usesFirst == \E i \in 1..Len(m.indices) :
                                 m.indices[i] = FirstLetterPlace(title)
            IN  /\ usesFirst <=> m.word[1] = Lowered(title[FirstLetterPlace(title) + 1])
                /\ m.niceness = ClaimedNiceness(title, m.word, m.indices)
                /\ m.niceness >= IF usesFirst THEN 25000 ELSE 0

\* a title that starts with a space gave a match that begins with its first
\* letter and a match that does not
C28_Witness ==
    /\ out.op = "findAllMatches2"
    /\ Len(out.value.exact) = 2
    /\ title[1] = 32
    /\ out.value.exact[1].indices[1] = FirstLetterPlace(title)
    /\ out.value.exact[2].indices[1] # FirstLetterPlace(title)

----------------------------------------------------------------------------
(* The searching flag and the timers of performSearch.                     *)

\* C29 as stated: searching is set exactly while a timer of performSearch is
\* pending, and at most one is pending at any time.
C29_SearchingIffOnePending ==
    app.mounted =>
        /\ Len(app.timers) <= 1
        /\ app.searching <=> Len(app.timers) = 1

----------------------------------------------------------------------------
(* The App with the copy button (src/unnamed/part_000 lines 420-779).  Its *)
(* findAllMatches takes three arguments and returns one list of matches;   *)
(* that version of the engine is the exact-match search, modelled by the   *)
(* exact list of lines 651-714.  A match is kept by its word.              *)

MaxWrites == 2
MaxResetTimers == 3

(* The body of the response: "a" and "a\nB".                               *)
CopyTexts == {<<97>>, <<97, 10, 66>>}

CopyOptions ==
    [minLength : {1},
     maxResults : {2},
     searchTerm : {<<>>},
     includeCompounds : {FALSE},
     includeNearMatches : {FALSE}]

\* String.prototype.toUpperCase on ASCII
toUpperCase(s) ==
    [i \in 1..Len(s) |-> IF s[i] \in 97..122 THEN s[i] - 32 ELSE s[i]]

\* `${selectedWord.word.toUpperCase()}: ${results.searchedTitle}`
textToCopy(selectedWord, searchedTitle) ==
    toUpperCase(selectedWord) \o <<58, 32>> \o searchedTitle

\* clearCopyTimeout: the timer copyResetRef holds is cancelled
clearCopyTimeout(a) ==
    IF a.copyResetRef # 0
    THEN [a EXCEPT !.resetTimers = @ \ {a.copyResetRef}, !.copyResetRef = 0]
    ELSE a

\* resetCopyState
resetCopyState(a) == [clearCopyTimeout(a) EXCEPT !.copyStatus = "idle"]

\* selectedWord is <<>> for null, clipboard is <<>> before any write
InitCopy ==
    /\ title = <<>>
    /\ word = <<>>
    /\ other = <<>>
    /\ allWords = <<>>
    /\ options \in CopyOptions
    /\ out = Idle
    /\ app = [mounted |-> TRUE,
              fetch |-> "pending",
              loading |-> TRUE,
              searching |-> FALSE,
              matches |-> <<>>,
              searchedTitle |-> <<>>,
              selectedWord |-> <<>>,
              copyStatus |-> "idle",
              copyResetRef |-> 0,
              resetTimers |-> {},
              timerIds |-> 0,
              writes |-> <<>>,
              clipboard |-> <<>>,
              timers |-> <<>>,
              searches |-> 0]

\* the promise of fetch and res.text() is fulfilled with the body text
CopyFetchResolves ==
    /\ app.mounted /\ app.fetch = "pending"
    /\ \E text \in CopyTexts :
           /\ allWords' = wordList(text)
           /\ app' = [app EXCEPT !.fetch = "resolved", !.loading = FALSE]
    /\ UNCHANGED <<title, word, other, options, out>>

\* performSearch (lines 512-548), from the button or the Enter key
CopyPerformSearch ==
    /\ app.mounted /\ ~app.loading
    /\ app.searches < MaxSearches
    /\ Len(app.timers) < MaxTimers
    /\ IF searchRefused(title, allWords)
       THEN app' = [app EXCEPT !.matches = <<>>,
                               !.searchedTitle = <<>>,
                               !.searches = @ + 1]
       ELSE app' = [resetCopyState(app) EXCEPT
                               !.searching = TRUE,
                               !.selectedWord = <<>>,
                               !.timers = Append(@, [title |-> title,
                                                     words |-> allWords,
                                                     options |-> options]),
                               !.searches = @ + 1]
    /\ UNCHANGED <<title, word, other, allWords, options, out>>

\* the callback of setTimeout runs with the state performSearch captured
CopyTimerFires ==
    /\ app.mounted /\ Len(app.timers) > 0
    /\ LET c == Head(app.timers)
           titleInfo == analyzeTitleTitle(c.title)
           found == findAllMatches2(titleInfo, c.words, buildWordSet(c.words),
                                    c.options).exact
       IN  app' = [app EXCEPT !.matches = [i \in 1..Len(found) |-> found[i].word],
                              !.searchedTitle = c.title,
                              !.searching = FALSE,
                              !.timers = Tail(@)]
    /\ UNCHANGED <<title, word, other, allWords, options, out>>

\* handleWordClick on a word card of the results section
HandleWordClick ==
    /\ app.mounted /\ ~app.loading
    /\ Len(app.searchedTitle) > 0
    /\ \E i \in 1..Len(app.matches) :
           app' = [resetCopyState(app) EXCEPT
                      !.selectedWord = IF app.selectedWord = app.matches[i]
                                       THEN <<>> ELSE app.matches[i]]
    /\ UNCHANGED <<title, word, other, allWords, options, out>>

\* handleCopy up to its await: the clipboard write is started
HandleCopy ==
    /\ app.mounted /\ ~app.loading
    /\ Len(app.searchedTitle) > 0 /\ Len(app.matches) > 0
    /\ Len(app.selectedWord) > 0
    /\ Len(app.writes) < MaxWrites
    /\ app' = [app EXCEPT !.writes = Append(@, textToCopy(app.selectedWord,
                                                           app.searchedTitle))]
    /\ UNCHANGED <<title, word, other, allWords, options, out>>

\* the write is done and handleCopy runs on from its await
WriteResolves ==
    /\ app.mounted /\ Len(app.writes) > 0
    /\ app.timerIds < MaxResetTimers
    /\ app' = [clearCopyTimeout(app) EXCEPT
                  !.clipboard = Head(app.writes),
                  !.writes = Tail(@),
                  !.copyStatus = "copied",
                  !.timerIds = @ + 1,
                  !.copyResetRef = app.timerIds + 1,
                  !.resetTimers = @ \cup {app.timerIds + 1}]
    /\ UNCHANGED <<title, word, other, allWords, options, out>>

\* the write fails: the catch of handleCopy
WriteRejects ==
    /\ app.mounted /\ Len(app.writes) > 0
    /\ app' = [app EXCEPT !.writes = Tail(@)]
    /\ UNCHANGED <<title, word, other, allWords, options, out>>

\* the callback of the 2000 ms timer
ResetTimerFires ==
    /\ app.mounted
    /\ \E id \in app.resetTimers :
           app' = [app EXCEPT !.copyStatus = "idle", !.resetTimers = @ \ {id}]
    /\ UNCHANGED <<title, word, other, allWords, options, out>>

NextCopy ==
    \/ CopyFetchResolves
    \/ FetchRejects
    \/ SetTitle
    \/ CopyPerformSearch
    \/ CopyTimerFires
    \/ HandleWordClick
    \/ HandleCopy
    \/ WriteResolves
    \/ WriteRejects
    \/ ResetTimerFires

SpecCopy == InitCopy /\ [][NextCopy]_vars

\* C30 as stated: copyStatus is 'copied' only while a word is selected and
\* the text of that word and the searched title is what the clipboard was
\* last given; a 'copied' status has its reset timer pending, and no more
\* than one reset timer is pending.
C30_CopiedMeansCurrentSelection ==
    app.mounted =>
        /\ app.copyStatus = "copied" =>
               /\ Len(app.selectedWord) > 0
               /\ app.clipboard = textToCopy(app.selectedWord, app.searchedTitle)
               /\ app.resetTimers # {}
        /\ Cardinality(app.resetTimers) <= 1

====
